---- MODULE Spec2Model ----
(***************************************************************************)
(* State-machine model of src/app/stocktransfer.py: the rate-limit retry   *)
(* driver (fetch_with_retry), the category crawler (explore_category,      *)
(* stock_process), the sales replay (stock_process_sales,                  *)
(* open_cart_items_per_unit) and the refund driver                         *)
(* (process_refunds_from_file, process_refunds).                           *)
(*                                                                         *)
(* The remote page (Playwright) is the environment: what a navigation      *)
(* answers, what a page shows, whether an element wait times out and       *)
(* whether the page has been closed are nondeterministic choices.          *)
(***************************************************************************)
EXTENDS Integers, Sequences, FiniteSets, TLC

VARIABLES
    fetch,        \* the activation of fetch_with_retry (one at a time)
    pageClosed,   \* page.is_closed(): the window was closed
    cpc,          \* where the crawl (stock_process / explore_category) stands
    stack,        \* the frames of explore_category, innermost last
    sp,           \* stock_process: top_categories, loop index i, rows
    files,        \* the table files on disk: name, header, data rows
    all_rows,     \* module-level all_rows (line 296)
    MAX_CATEGORY_DEPTH,  \* module-level MAX_CATEGORY_DEPTH (lines 293, 366)
    visits,       \* history: every call of explore_category, in call order
    listed,       \* history: number of category links the site has listed
    afterNone,    \* history: callers that went on after a None result
    closedSeenAt, \* history: the visit at which is_closed() was first true
    csv,          \* the sales file: found, fieldnames, rows
    argv,         \* sys.argv of the sales run
    finish_transaction,  \* the caller's flag (--save)
    dpc,          \* where stock_process_sales / open_cart_items_per_unit stands
    units,        \* units: the (barserial, cost_per_unit) tuples
    i,            \* the index of the loop of open_cart_items_per_unit
    cur,          \* the batch being processed and what was entered for it
    rowUnits,     \* history: the units each row of the file was expanded into
    batches,      \* history: every batch formed, in order
    failedIn,     \* history: the batch in which a step timed out (0: none)
    rfile,        \* the refund input file: found, lines
    receipt_ids,  \* receipt_ids of process_refunds_from_file
    rpc,          \* where process_refunds_from_file / process_refunds stands
    receipt,      \* the receipt of the loop: its place in the list, its cards
    warned,       \* history: the numbers of the lines a warning was logged for
    attempts      \* history: every receipt gone to, in order

fvars == <<fetch, pageClosed>>
cvars == <<cpc, stack, sp, files, all_rows, MAX_CATEGORY_DEPTH, visits, listed,
           afterNone, closedSeenAt>>
svars == <<csv, argv, finish_transaction, dpc, units, i, cur, rowUnits, batches,
           failedIn>>
rvars == <<rfile, receipt_ids, rpc, receipt, warned, attempts>>
vars == <<fvars, cvars, svars, rvars>>

(***************************************************************************)
(* Bounds of the model.                                                    *)
(***************************************************************************)
MaxRetriesArg == 6    \* max_retries arguments tried: 0..MaxRetriesArg
MaxK == 7             \* rate-limited answers an accessor gives before success
MaxNodes == 4         \* category links the site lists in one crawl
MaxRows == 2          \* rows of the sales file
MaxRecords == 2       \* records in the result set of one top-level category
MaxLines == 2         \* lines of the refund input file

Min(a, b) == IF a < b THEN a ELSE b

(***************************************************************************)
(* fetch_with_retry                                                        *)
(***************************************************************************)
DEFAULT_MAX_RETRIES == 5
RATE_LIMITED == "429"
SuccessStatuses == {"200", "404"}     \* any status other than 429 is returned

NoFetch ==
    [pc |-> "idle", caller |-> "none", max_retries |-> 0, retries |-> 0,
     k |-> 0, status |-> "200", gotos |-> 0, sleeps |-> 0, result |-> "unset"]

\* A call: retries = 0 (line 343).  k and status are the accessor's script:
\* it answers 429 to the first k navigations and status afterwards.
FetchStart(caller, max_retries, k, status) ==
    [pc |-> "loop", caller |-> caller, max_retries |-> max_retries,
     retries |-> 0, k |-> k, status |-> status, gotos |-> 0, sleeps |-> 0,
     result |-> "unset"]

\* while retries < max_retries (line 344), off by one
MutRetryLoopCond(retries, max_retries) == retries <= max_retries

\* while retries < max_retries (line 344)
RetryLoopCond(retries, max_retries) == retries < max_retries

\* if response.status != "200": every other status is slept on and retried
MutIsRateLimited(status) == status # "200"

\* response.status != 429 is what ends the loop   (line 348)
IsRateLimited(status) == status = RATE_LIMITED

\* What the accessor answers to the next page.goto of this call.
Response(f) == IF f.gotos < f.k THEN RATE_LIMITED ELSE f.status

\* response = await page.goto(url); wait_for_load_state;
\* if response.status != 429: return response   (lines 345-349)
FetchGoto ==
    /\ fetch.pc = "loop"
    /\ RetryLoopCond(fetch.retries, fetch.max_retries)
    /\ ~pageClosed
    /\ fetch' = IF ~IsRateLimited(Response(fetch))
                THEN [fetch EXCEPT !.gotos = @ + 1, !.pc = "ret",
                                   !.result = Response(fetch)]
                ELSE [fetch EXCEPT !.gotos = @ + 1, !.pc = "sleep"]
    /\ UNCHANGED <<rvars, pageClosed, cvars, svars>>

\* await asyncio.sleep(delay_on_rate_limit); retries += 1   (lines 351-353)
FetchSleep ==
    /\ fetch.pc = "sleep"
    /\ fetch' = [fetch EXCEPT !.sleeps = @ + 1, !.retries = @ + 1, !.pc = "loop"]
    /\ UNCHANGED <<rvars, pageClosed, cvars, svars>>

\* the loop ends: return None   (lines 355-356)
FetchExhausted ==
    /\ fetch.pc = "loop"
    /\ ~RetryLoopCond(fetch.retries, fetch.max_retries)
    /\ fetch' = [fetch EXCEPT !.pc = "ret", !.result = "None"]
    /\ UNCHANGED <<rvars, pageClosed, cvars, svars>>

(***************************************************************************)
(* The driver on its own: calls with every max_retries and every accessor. *)
(***************************************************************************)
RetryCall ==
    /\ fetch.pc = "idle"
    /\ \E m \in 0..MaxRetriesArg, k \in 0..MaxK, s \in SuccessStatuses :
          fetch' = FetchStart("test", m, k, s)
    /\ UNCHANGED <<rvars, pageClosed, cvars, svars>>

RetryReturn ==
    /\ fetch.pc = "ret"
    /\ fetch.caller = "test"
    /\ fetch' = NoFetch
    /\ UNCHANGED <<rvars, pageClosed, cvars, svars>>

\* the accessor fails the navigation: page.goto raises (a timeout, a network
\* error) or wait_for_load_state raises, or page.goto returns no response
\* object and response.status raises AttributeError; nothing in
\* fetch_with_retry catches it   (lines 345-348)
FetchGotoFails ==
    /\ fetch.pc = "loop"
    /\ fetch.caller = "test"
    /\ RetryLoopCond(fetch.retries, fetch.max_retries)
    /\ \E failure \in {"goto raises", "no response object"} :
          fetch' = [fetch EXCEPT !.gotos = @ + 1, !.pc = "raised",
                                 !.result = failure]
    /\ UNCHANGED <<rvars, pageClosed, cvars, svars>>

CrawlIdle ==
    /\ cpc = "off"
    /\ stack = <<>>
    /\ sp = [top_categories |-> <<>>, i |-> 1, rows |-> <<>>]
    /\ files = {}
    /\ all_rows = <<>>
    /\ MAX_CATEGORY_DEPTH = 0
    /\ visits = <<>>
    /\ listed = 0
    /\ afterNone = {}
    /\ closedSeenAt = 0

NoBatch ==
    [batch_num |-> 0, batch |-> <<>>, batch_end |-> 0, cart |-> "none",
     grouped_items |-> <<>>, added |-> 0, form |-> <<>>, idx |-> 0,
     field |-> "quantity", paid |-> -1, stages |-> <<>>]

SalesIdle ==
    /\ csv = [found |-> FALSE, fieldnames |-> {}, rows |-> <<>>]
    /\ argv = <<>>
    /\ finish_transaction = FALSE
    /\ dpc = "off"
    /\ units = <<>>
    /\ i = 0
    /\ cur = NoBatch
    /\ rowUnits = <<>>
    /\ batches = <<>>
    /\ failedIn = 0

NoReceipt == [idx |-> 1, cards |-> 0, card |-> 1,
              bank_transfer_unavailable |-> FALSE]

RefundsIdle ==
    /\ rfile = [found |-> FALSE, lines |-> <<>>]
    /\ receipt_ids = <<>>
    /\ rpc = "off"
    /\ receipt = NoReceipt
    /\ warned = {}
    /\ attempts = <<>>

InitRetry ==
    /\ fetch = NoFetch
    /\ pageClosed = FALSE
    /\ CrawlIdle
    /\ SalesIdle
    /\ RefundsIdle

NextRetry ==
    \/ RetryCall
    \/ FetchGoto
    \/ FetchSleep
    \/ FetchExhausted
    \/ RetryReturn
    \/ FetchGotoFails

SpecRetry == InitRetry /\ [][NextRetry]_vars

\* C1: when fetch_with_retry returns for an accessor that answers 429 exactly
\* k times and then succeeds, it returns the success response iff
\* k < max_retries, None otherwise, and has slept min(k, max_retries) times.
C1_RetryContract ==
    fetch.pc = "ret" =>
        /\ (fetch.result = fetch.status) <=> (fetch.k < fetch.max_retries)
        /\ (fetch.result = "None") <=> (fetch.k >= fetch.max_retries)
        /\ fetch.sleeps = Min(fetch.k, fetch.max_retries)

\* an accessor that stays rate-limited past a positive retry budget
C1_Witness ==
    /\ fetch.pc = "ret"
    /\ fetch.max_retries = DEFAULT_MAX_RETRIES
    /\ fetch.k > fetch.max_retries
    /\ fetch.result = "None"
    /\ fetch.sleeps = DEFAULT_MAX_RETRIES

\* C21: a sleep follows a rate-limited response only, and the first
\* response of another status, an error status included, is returned at
\* once: it is the last navigation of the call and no sleep follows it.
C21_ReturnsFirstOtherStatus ==
    /\ fetch.sleeps <= Min(fetch.gotos, fetch.k)
    /\ fetch.pc = "sleep" => fetch.gotos <= fetch.k
    /\ fetch.gotos > fetch.k /\ fetch.pc # "raised" =>
          /\ fetch.pc = "ret"
          /\ fetch.gotos = fetch.k + 1
          /\ fetch.sleeps = fetch.k
          /\ fetch.result = fetch.status

\* an error status returned after two rate-limited answers
C21_Witness ==
    /\ fetch.pc = "ret"
    /\ fetch.k = 2
    /\ fetch.status = "404"
    /\ fetch.result = "404"
    /\ fetch.gotos = 3
    /\ fetch.sleeps = 2

\* C22: fetch_with_retry never raises: whatever the accessor does, the
\* call ends by returning a response or None.
C22_NeverRaises == fetch.pc # "raised"

(***************************************************************************)
(* The crawl: stock_process and explore_category.                          *)
(*                                                                         *)
(* A path is a sequence of names; a row of a result set is <<path, cells>>, *)
(* as in the source.                                                       *)
(***************************************************************************)
T1 == "T1"
T2 == "T /2"
T3 == "T_2"
Ka == "a"
Kb == "b"
TopLists == {<<>>, <<T1>>, <<T1, T2>>}
ChildLists == {<<>>, <<Ka>>, <<Ka, Kb>>, <<Ka, Ka>>, <<Ka, Kb, Ka>>}
RowA == <<"S1", "n1", "1", "9.00", "4.50", "0", "9", "4.5", "50">>
RowB == <<"S2", "n2", "2", "8.00", "4.00", "0", "8", "4.0", "50">>
RowShort == <<"Total", "3">>          \* a table line with two cells
LeafTables == {<<>>, <<RowA>>, <<RowA, RowB>>}
CrawlScripts == {0, 1, DEFAULT_MAX_RETRIES}  \* 429 answers before success

leaf_headers ==
    <<"Barserial", "Name", "Quantity", "Retail", "Cost", "VAT", "Net",
      "Total Margin", "Margin %">>

Blanks(n) == [j \in 1..n |-> ""]

\* local_rows.append((path.copy(), r)): the rows in reverse order
MutTagged(path, table_rows) ==
    [j \in 1..Len(table_rows) |->
        <<path, table_rows[Len(table_rows) + 1 - j]>>]

\* local_rows.append((path.copy(), r)) for r in table_rows   (lines 417-418)
Tagged(path, table_rows) ==
    [j \in 1..Len(table_rows) |-> <<path, table_rows[j]>>]

Max(a, b) == IF a > b THEN a ELSE b

\* rows_for_this_category.extend(sub_rows) keeps only the newest result
MutAfterChild(frame, sub_rows) ==
    [frame EXCEPT !.rows = sub_rows, !.i = @ + 1]

\* rows_for_this_category.extend(sub_rows), next subcategory (lines 440, 448)
AfterChild(frame, sub_rows) ==
    [frame EXCEPT !.rows = @ \o sub_rows, !.i = @ + 1]

NewVisit(path, parent, pos, nsib) ==
    [path |-> path, parent |-> parent, pos |-> pos, nsib |-> nsib,
     kind |-> "pending", kids |-> <<>>, returned |-> FALSE, result |-> <<>>,
     table |-> <<>>, log |-> <<>>]

\* rows_for_this_category = all_rows: the frame starts from the records of
\* the whole run
MutNewFrame(v, path) ==
    [v |-> v, path |-> path, subcategories |-> <<>>, i |-> 1,
     rows |-> all_rows, table |-> <<>>]

\* the locals of a call of explore_category; rows_for_this_category = []
\* (line 392)
NewFrame(v, path) ==
    [v |-> v, path |-> path, subcategories |-> <<>>, i |-> 1, rows |-> <<>>,
     table |-> <<>>]

Top == stack[Len(stack)]

\* what explore_category prints when it gives a node up (lines 378, 382);
\* the other returns print nothing
ExitLog(kind) ==
    CASE kind = "unreachable" ->
            <<"[ERROR] Could not reach the page due to rate limiting.">>
      [] kind = "closed" -> <<"[ERROR] Page was closed unexpectedly.">>
      [] OTHER -> <<>>

\* what scrape_leaf_table prints (lines 303, 317, 331)
ScrapeLog(headersOk, rows) ==
    <<"[LEAF] Scraping leaf table at path">>
    \o (IF ~headersOk THEN <<"[WARNING] Expected Barserial table">>
        ELSE IF rows = <<>> THEN <<"[WARNING] No rows found in leaf table">>
        ELSE <<>>)

\* explore_category returns rows: its caller is the frame below (line 446) or
\* stock_process (line 497).
Return(rows, kind, kids) ==
    /\ visits' = [visits EXCEPT ![Top.v].kind = kind, ![Top.v].kids = kids,
                                ![Top.v].returned = TRUE,
                                ![Top.v].result = rows,
                                ![Top.v].log = @ \o ExitLog(kind)]
    /\ IF Len(stack) = 1
       THEN /\ stack' = <<>>
            /\ sp' = [sp EXCEPT !.rows = rows]
            /\ cpc' = "sp_rows"
       ELSE /\ stack' = Append(SubSeq(stack, 1, Len(stack) - 2),
                               AfterChild(stack[Len(stack) - 1], rows))
            /\ sp' = sp
            /\ cpc' = "loop"

\* explore_category is entered: the random delay, then fetch_with_retry
\* (lines 368-376)
Enter(path, parent, pos, nsib, below) ==
    /\ visits' = Append(visits, NewVisit(path, parent, pos, nsib))
    /\ stack' = Append(below, NewFrame(Len(visits) + 1, path))
    /\ \E k \in CrawlScripts :
          fetch' = FetchStart("node", DEFAULT_MAX_RETRIES, k, "200")
    /\ cpc' = "node_fetch"

\* await fetch_with_retry(page, top_url): the result is dropped (line 456)
SpLoadRoot ==
    /\ cpc = "sp_root"
    /\ fetch.pc = "idle"
    /\ \E k \in CrawlScripts :
          fetch' = FetchStart("root", DEFAULT_MAX_RETRIES, k, "200")
    /\ cpc' = "sp_read"
    /\ UNCHANGED <<rvars, svars, pageClosed, stack, sp, files, all_rows, MAX_CATEGORY_DEPTH,
                   visits, listed, afterNone, closedSeenAt>>

\* shop_name and top_categories are read off the page (lines 459-488)
SpReadRoot ==
    /\ cpc = "sp_read"
    /\ fetch.pc = "ret"
    /\ fetch.caller = "root"
    /\ ~pageClosed
    /\ \E tops \in TopLists :
          /\ Len(tops) <= MaxNodes
          /\ sp' = [top_categories |-> tops, i |-> 1, rows |-> <<>>]
          /\ listed' = Len(tops)
    /\ afterNone' = IF fetch.result = "None"
                    THEN afterNone \cup {"stock_process"} ELSE afterNone
    /\ fetch' = NoFetch
    /\ cpc' = "sp_loop"
    /\ UNCHANGED <<rvars, svars, pageClosed, stack, files, all_rows, MAX_CATEGORY_DEPTH,
                   visits, closedSeenAt>>

\* for i, cat in enumerate(top_categories): explore_category(...)
\* (lines 490-502; TEST_FIRST_TOP_CATEGORY_ONLY is False)
SpExplore ==
    /\ cpc = "sp_loop"
    /\ sp.i <= Len(sp.top_categories)
    /\ Enter(<<sp.top_categories[sp.i]>>, 0, sp.i, Len(sp.top_categories), <<>>)
    /\ UNCHANGED <<rvars, svars, pageClosed, sp, files, all_rows, MAX_CATEGORY_DEPTH,
                   listed, afterNone, closedSeenAt>>

\* the loop is over: "All top-level categories processed." (line 538)
SpDone ==
    /\ cpc = "sp_loop"
    /\ sp.i > Len(sp.top_categories)
    /\ cpc' = "done"
    /\ UNCHANGED <<rvars, svars, fvars, stack, sp, files, all_rows, MAX_CATEGORY_DEPTH,
                   visits, listed, afterNone, closedSeenAt>>

\* if response is None: return []   (lines 377-379)
ExploreUnreachable ==
    /\ cpc = "node_fetch"
    /\ fetch.pc = "ret"
    /\ fetch.result = "None"
    /\ Return(<<>>, "unreachable", <<>>)
    /\ fetch' = NoFetch
    /\ UNCHANGED <<rvars, svars, pageClosed, files, all_rows, MAX_CATEGORY_DEPTH, listed,
                   afterNone, closedSeenAt>>

\* if page.is_closed(): return []   (lines 381-383)
ExploreClosed ==
    /\ cpc = "node_fetch"
    /\ fetch.pc = "ret"
    /\ fetch.result # "None"
    /\ pageClosed
    /\ Return(<<>>, "closed", <<>>)
    /\ closedSeenAt' = IF closedSeenAt = 0 THEN Top.v ELSE closedSeenAt
    /\ fetch' = NoFetch
    /\ UNCHANGED <<rvars, svars, pageClosed, files, all_rows, MAX_CATEGORY_DEPTH, listed,
                   afterNone>>

\* the page is there and open: go on to read it
ExploreOpen ==
    /\ cpc = "node_fetch"
    /\ fetch.pc = "ret"
    /\ fetch.result # "None"
    /\ ~pageClosed
    /\ fetch' = NoFetch
    /\ cpc' = "classify"
    /\ UNCHANGED <<rvars, svars, pageClosed, stack, sp, files, all_rows, MAX_CATEGORY_DEPTH,
                   visits, listed, afterNone, closedSeenAt>>

\* the marker is found and nothing is appended
MutEmptyMarkerRows(path) == <<>>

\* rows_for_this_category.append((path.copy(), [""] * len(leaf_headers)))
\* (lines 402-404)
EmptyMarkerRows(path) == <<<<path, Blanks(Len(leaf_headers))>>>>

\* table_type is None and the empty marker is there (lines 394-405)
ClassifyEmptyMarker ==
    /\ cpc = "classify"
    /\ ~pageClosed
    /\ Return(EmptyMarkerRows(Top.path), "empty", <<>>)
    /\ UNCHANGED <<rvars, svars, fvars, files, all_rows, MAX_CATEGORY_DEPTH, listed,
                   afterNone, closedSeenAt>>

\* table_type is None and there is no marker (lines 394-405)
ClassifySilent ==
    /\ cpc = "classify"
    /\ ~pageClosed
    /\ Return(<<>>, "silent", <<>>)
    /\ UNCHANGED <<rvars, svars, fvars, files, all_rows, MAX_CATEGORY_DEPTH, listed,
                   afterNone, closedSeenAt>>

\* table_type.lower() == "barserial": scrape_leaf_table is called (line 407)
ClassifyLeaf ==
    /\ cpc = "classify"
    /\ ~pageClosed
    /\ cpc' = "leaf_scrape"
    /\ UNCHANGED <<rvars, svars, fvars, stack, sp, files, all_rows, MAX_CATEGORY_DEPTH,
                   visits, listed, afterNone, closedSeenAt>>

\* scrape_leaf_table: the page is loaded again, without retry; its rows go
\* to all_rows when the headers are the leaf headers (lines 298-336)
LeafScrape ==
    /\ cpc = "leaf_scrape"
    /\ ~pageClosed
    /\ MAX_CATEGORY_DEPTH' = Max(MAX_CATEGORY_DEPTH, Len(Top.path))
    /\ \E rows \in LeafTables, headersOk \in BOOLEAN :
          /\ all_rows' = IF headersOk /\ rows # <<>>
                         THEN all_rows \o Tagged(Top.path, rows)
                         ELSE all_rows
          /\ stack' = [stack EXCEPT ![Len(stack)].table = rows]
          /\ visits' = [visits EXCEPT
                          ![Top.v].table = rows,
                          ![Top.v].log = @ \o ScrapeLog(headersOk, rows)]
    /\ cpc' = "leaf_rows"
    /\ UNCHANGED <<rvars, svars, fvars, sp, files, listed, afterNone, closedSeenAt>>

\* table_rows are read and returned with the path (lines 411-420)
LeafCollect ==
    /\ cpc = "leaf_rows"
    /\ ~pageClosed
    /\ Return(Top.rows \o Tagged(Top.path, Top.table), "leaf", <<>>)
    /\ UNCHANGED <<rvars, svars, fvars, files, all_rows, MAX_CATEGORY_DEPTH, listed,
                   afterNone, closedSeenAt>>

\* a category table: its links are the subcategories (lines 422-438)
ClassifyCategory ==
    /\ cpc = "classify"
    /\ ~pageClosed
    /\ \E subs \in ChildLists :
          /\ listed + Len(subs) <= MaxNodes
          /\ listed' = listed + Len(subs)
          /\ IF subs = <<>>
             THEN Return(Top.rows, "category", <<>>)
             ELSE /\ stack' = [stack EXCEPT ![Len(stack)].subcategories = subs]
                  /\ visits' = [visits EXCEPT ![Top.v].kind = "category",
                                              ![Top.v].kids = subs]
                  /\ cpc' = "loop"
                  /\ sp' = sp
    /\ UNCHANGED <<rvars, svars, fvars, files, all_rows, MAX_CATEGORY_DEPTH, afterNone,
                   closedSeenAt>>

\* the child is explored with its own name as whole path
MutChildPath(path, name) == <<name>>

\* path + [subcat["name"]]   (line 446)
ChildPath(path, name) == path \o <<name>>

\* for i, subcat in enumerate(subcategories): explore_category(...,
\* path + [subcat["name"]])   (lines 440-447; is_top_level is always False)
LoopExplore ==
    /\ cpc = "loop"
    /\ Top.i <= Len(Top.subcategories)
    /\ Enter(ChildPath(Top.path, Top.subcategories[Top.i]), Top.v, Top.i,
             Len(Top.subcategories), stack)
    /\ UNCHANGED <<rvars, svars, pageClosed, sp, files, all_rows, MAX_CATEGORY_DEPTH,
                   listed, afterNone, closedSeenAt>>

\* return rows_for_this_category   (line 450)
LoopReturn ==
    /\ cpc = "loop"
    /\ Top.i > Len(Top.subcategories)
    /\ Return(Top.rows, "category", Top.subcategories)
    /\ UNCHANGED <<rvars, svars, fvars, files, all_rows, MAX_CATEGORY_DEPTH, listed,
                   afterNone, closedSeenAt>>

(***************************************************************************)
(* The table file of one top-level category (lines 504-536).               *)
(***************************************************************************)
Upper == {"A", "B", "C", "D", "E", "F", "G", "H", "I", "J", "K", "L", "M",
          "N", "O", "P", "Q", "R", "S", "T", "U", "V", "W", "X", "Y", "Z"}
Lower == {"a", "b", "c", "d", "e", "f", "g", "h", "i", "j", "k", "l", "m",
          "n", "o", "p", "q", "r", "s", "t", "u", "v", "w", "x", "y", "z"}
Digits == {"0", "1", "2", "3", "4", "5", "6", "7", "8", "9"}

\* the characters of the names the site uses
Chars(name) ==
    CASE name = "T1" -> <<"T", "1">>
      [] name = "T /2" -> <<"T", " ", "/", "2">>
      [] name = "T_2" -> <<"T", "_", "2">>
      [] name = "a" -> <<"a">>
      [] name = "b" -> <<"b">>

\* [A-Za-z0-9_-]
IsSafe(c) == c \in Upper \cup Lower \cup Digits \cup {"_", "-"}

RECURSIVE San(_, _, _)
San(cs, j, inRun) ==
    IF j > Len(cs) THEN <<>>
    ELSE IF IsSafe(cs[j]) THEN <<cs[j]>> \o San(cs, j + 1, FALSE)
    ELSE IF inRun THEN San(cs, j + 1, TRUE)
    ELSE <<"_">> \o San(cs, j + 1, TRUE)

\* re.sub(r'[^A-Za-z0-9_-]', '_', name): every character on its own
MutSanitize(name) ==
    [j \in 1..Len(Chars(name)) |->
        IF IsSafe(Chars(name)[j]) THEN Chars(name)[j] ELSE "_"]

\* re.sub(r'[^A-Za-z0-9_-]+', '_', name)   (line 520)
Sanitize(name) == San(Chars(name), 1, FALSE)

\* re.sub(...) + ".csv" under the shop folder   (lines 518-521)
FileName(name) == Sanitize(name) \o <<".", "c", "s", "v">>

RECURSIVE MaxLen(_)
\* max(len(path) for path, _ in rows)   (line 509)
MaxLen(rows) ==
    IF rows = <<>> THEN 0
    ELSE Max(Len(rows[1][1]), MaxLen(Tail(rows)))

LevelNames ==
    <<"Category Level 1", "Category Level 2", "Category Level 3",
      "Category Level 4", "Category Level 5", "Category Level 6",
      "Category Level 7", "Category Level 8">>

\* range(max_depth - 1): one level short
MutCategoryHeaders(max_depth) == SubSeq(LevelNames, 1, max_depth - 1)

\* [f"Category Level {i+1}" for i in range(max_depth)]   (line 511)
category_headers(max_depth) == SubSeq(LevelNames, 1, max_depth)

\* padded_path = path: no padding
MutPaddedRow(path, row, max_depth) == path \o row

\* padded_path + row, padded_path = path + [""] * (max_depth - len(path))
\* (lines 530-531)
PaddedRow(path, row, max_depth) ==
    path \o Blanks(max_depth - Len(path)) \o row

\* the header and one line per row, written to the .tmp file and moved over
\* the target by os.replace   (lines 523-534)
TableFile(name, rows) ==
    LET max_depth == MaxLen(rows) IN
    [name |-> FileName(name),
     header |-> category_headers(max_depth) \o leaf_headers,
     rows |-> [j \in 1..Len(rows) |->
                  PaddedRow(rows[j][1], rows[j][2], max_depth)]]

\* if not rows: "No data for category", continue   (lines 504-506)
SpNoData ==
    /\ cpc = "sp_rows"
    /\ sp.rows = <<>>
    /\ sp' = [sp EXCEPT !.i = @ + 1]
    /\ cpc' = "sp_loop"
    /\ UNCHANGED <<rvars, svars, fvars, stack, files, all_rows, MAX_CATEGORY_DEPTH, visits,
                   listed, afterNone, closedSeenAt>>

\* tmp_filename = filename, the table is written straight to the target
MutTmpName(filename) == filename

\* tmp_filename = filename + ".tmp"   (line 523)
TmpName(filename) == filename \o <<".", "t", "m", "p">>

\* the file of that name on disk
HasFile(name) == \E f \in files : f.name = name
FileAt(name) == CHOOSE f \in files : f.name = name

\* open(tmp_filename, "w"): the temporary file is created, or emptied
\* (lines 508-525)
SpOpenTmp ==
    /\ cpc = "sp_rows"
    /\ sp.rows # <<>>
    /\ LET tmp == TmpName(FileName(sp.top_categories[sp.i]))
       IN files' = {f \in files : f.name # tmp}
                      \cup {[name |-> tmp, header |-> <<>>, rows |-> <<>>]}
    /\ cpc' = "sp_header"
    /\ UNCHANGED <<rvars, svars, fvars, stack, sp, all_rows, MAX_CATEGORY_DEPTH,
                   visits, listed, afterNone, closedSeenAt>>

\* writer.writerow(category_headers + leaf_headers)   (lines 509-527)
SpWriteHeader ==
    /\ cpc = "sp_header"
    /\ LET tmp == TmpName(FileName(sp.top_categories[sp.i]))
           max_depth == MaxLen(sp.rows)
       IN files' = {f \in files : f.name # tmp}
                      \cup {[FileAt(tmp) EXCEPT
                               !.header = category_headers(max_depth)
                                             \o leaf_headers]}
    /\ cpc' = "sp_line"
    /\ UNCHANGED <<rvars, svars, fvars, stack, sp, all_rows, MAX_CATEGORY_DEPTH,
                   visits, listed, afterNone, closedSeenAt>>

\* for path, row in rows: writer.writerow(padded_path + row)
\* (lines 529-531)
SpWriteRow ==
    /\ cpc = "sp_line"
    /\ LET tmp == TmpName(FileName(sp.top_categories[sp.i]))
           max_depth == MaxLen(sp.rows)
           j == Len(FileAt(tmp).rows) + 1
       IN /\ j <= Len(sp.rows)
          /\ files' = {f \in files : f.name # tmp}
                         \cup {[FileAt(tmp) EXCEPT
                                  !.rows = Append(@,
                                      PaddedRow(sp.rows[j][1], sp.rows[j][2],
                                                max_depth))]}
    /\ UNCHANGED <<rvars, svars, fvars, cpc, stack, sp, all_rows, MAX_CATEGORY_DEPTH,
                   visits, listed, afterNone, closedSeenAt>>

\* the file is closed; os.replace(tmp_filename, filename); next category
\* (lines 531-536)
SpReplace ==
    /\ cpc = "sp_line"
    /\ LET filename == FileName(sp.top_categories[sp.i])
           tmp == TmpName(filename)
       IN /\ Len(FileAt(tmp).rows) = Len(sp.rows)
          /\ files' = {f \in files : f.name \notin {tmp, filename}}
                         \cup {[FileAt(tmp) EXCEPT !.name = filename]}
    /\ sp' = [sp EXCEPT !.i = @ + 1, !.rows = <<>>]
    /\ cpc' = "sp_loop"
    /\ UNCHANGED <<rvars, svars, fvars, stack, all_rows, MAX_CATEGORY_DEPTH, visits,
                   listed, afterNone, closedSeenAt>>

(***************************************************************************)
(* The environment: the window is closed; a navigation or a read of a      *)
(* closed page raises (Playwright), and nothing in the crawl catches it.   *)
(***************************************************************************)
ClosePage ==
    /\ ~pageClosed
    /\ cpc \notin {"off", "done", "crashed"}
    /\ fetch.pc # "raised"
    /\ pageClosed' = TRUE
    /\ UNCHANGED <<rvars, svars, fetch, cvars>>

\* page.goto on a closed page raises out of fetch_with_retry (line 345)
FetchGotoRaises ==
    /\ fetch.pc = "loop"
    /\ RetryLoopCond(fetch.retries, fetch.max_retries)
    /\ pageClosed
    /\ fetch' = [fetch EXCEPT !.pc = "raised"]
    /\ UNCHANGED <<rvars, pageClosed, cvars, svars>>

\* page.evaluate / page.goto on a closed page raises (lines 304, 385, 412,
\* 423, 459)
PageOpRaises ==
    /\ pageClosed
    /\ \/ cpc \in {"classify", "leaf_scrape", "leaf_rows"}
       \/ cpc = "sp_read" /\ fetch.pc = "ret"
    /\ cpc' = "crashed"
    /\ UNCHANGED <<rvars, svars, fvars, stack, sp, files, all_rows, MAX_CATEGORY_DEPTH,
                   visits, listed, afterNone, closedSeenAt>>

InitCrawl ==
    /\ fetch = NoFetch
    /\ pageClosed = FALSE
    /\ cpc = "sp_root"
    /\ stack = <<>>
    /\ sp = [top_categories |-> <<>>, i |-> 1, rows |-> <<>>]
    /\ files = {}
    /\ all_rows = <<>>
    /\ MAX_CATEGORY_DEPTH = 0
    /\ visits = <<>>
    /\ listed = 0
    /\ afterNone = {}
    /\ closedSeenAt = 0
    /\ SalesIdle
    /\ RefundsIdle

NextCrawl ==
    \/ SpLoadRoot
    \/ SpReadRoot
    \/ SpExplore
    \/ SpDone
    \/ SpNoData
    \/ SpOpenTmp
    \/ SpWriteHeader
    \/ SpWriteRow
    \/ SpReplace
    \/ FetchGoto
    \/ FetchSleep
    \/ FetchExhausted
    \/ FetchGotoRaises
    \/ ExploreUnreachable
    \/ ExploreClosed
    \/ ExploreOpen
    \/ ClassifyEmptyMarker
    \/ ClassifySilent
    \/ ClassifyLeaf
    \/ LeafScrape
    \/ LeafCollect
    \/ ClassifyCategory
    \/ LoopExplore
    \/ LoopReturn
    \/ ClosePage
    \/ PageOpRaises

SpecCrawl == InitCrawl /\ [][NextCrawl]_vars

(***************************************************************************)
(* The aggregator on its own: the loop of stock_process (lines 490-538)    *)
(* over the top-level categories, with the result set of each call of      *)
(* explore_category drawn from the records it can return: any path below   *)
(* the category, any number of cells.                                      *)
(***************************************************************************)
TableTops == {<<T1>>, <<T1, T2>>, <<T2, T3>>}

\* the paths explore_category builds below a top-level category: path=[cat]
\* (line 500), path + [subcat["name"]] (line 446)
PathsBelow(cat) == {<<cat>>, <<cat, Ka>>, <<cat, Ka, Kb>>}

\* (path.copy(), r): the cells are those of the table line   (lines 412-418)
Records(cat) ==
    (PathsBelow(cat) \X {RowA}) \cup {<<(<<cat>>), RowShort>>}

ResultSets(cat) == UNION { [1..n -> Records(cat)] : n \in 0..MaxRecords }

\* rows = await explore_category(page, cat["url"], path=[cat["name"]], ...)
\* (lines 497-502), the call and its return in one step
SpExploreReturns ==
    /\ cpc = "sp_loop"
    /\ sp.i <= Len(sp.top_categories)
    /\ \E rows \in ResultSets(sp.top_categories[sp.i]) :
          /\ sp' = [sp EXCEPT !.rows = rows]
          /\ visits' = Append(visits,
                [NewVisit(<<sp.top_categories[sp.i]>>, 0, sp.i,
                          Len(sp.top_categories))
                   EXCEPT !.returned = TRUE, !.result = rows,
                          !.kind = "category"])
    /\ cpc' = "sp_rows"
    /\ UNCHANGED <<rvars, svars, fvars, stack, files, all_rows, MAX_CATEGORY_DEPTH,
                   listed, afterNone, closedSeenAt>>

InitTable ==
    /\ fetch = NoFetch
    /\ pageClosed = FALSE
    /\ cpc = "sp_loop"
    /\ stack = <<>>
    /\ sp \in [top_categories : TableTops, i : {1}, rows : {<<>>}]
    /\ files = {}
    /\ all_rows = <<>>
    /\ MAX_CATEGORY_DEPTH = 0
    /\ visits = <<>>
    /\ listed = Len(sp.top_categories)
    /\ afterNone = {}
    /\ closedSeenAt = 0
    /\ SalesIdle
    /\ RefundsIdle

NextTable ==
    \/ SpExploreReturns
    \/ SpNoData
    \/ SpOpenTmp
    \/ SpWriteHeader
    \/ SpWriteRow
    \/ SpReplace
    \/ SpDone

SpecTable == InitTable /\ [][NextTable]_vars

(***************************************************************************)
(* Claims about the crawl.                                                 *)
(***************************************************************************)
Visits == DOMAIN visits

\* the call made for the j-th link of the page of visit p (p = 0: the root)
HasChildAt(p, j) ==
    \E w \in Visits : visits[w].parent = p /\ visits[w].pos = j

ChildAt(p, j) ==
    CHOOSE w \in Visits : visits[w].parent = p /\ visits[w].pos = j

RECURSIVE ChildResults(_, _)
\* the results of the first n children of visit p, in link order
ChildResults(p, n) ==
    IF n = 0 THEN <<>>
    ELSE ChildResults(p, n - 1) \o visits[ChildAt(p, n)].result

\* C2: a caller of fetch_with_retry that got None reads or drives the page
\* no further.
C2_NoneAbortsCaller == afterNone = {}

\* C3: a node whose retries are exhausted returns an empty result, and that
\* is all: once its parent has returned, every sibling has been explored and
\* the parent's result is the concatenation of all its children's results,
\* the records of the earlier siblings included; at the top level the loop
\* of stock_process has gone through every category when it ends.
C3_ExhaustionAbortsNodeOnly ==
    \A v \in Visits :
        visits[v].kind = "unreachable" =>
            /\ visits[v].returned
            /\ visits[v].result = <<>>
            /\ LET p == visits[v].parent IN
               IF p = 0
               THEN cpc = "done" =>
                       \A j \in 1..visits[v].nsib : HasChildAt(0, j)
               ELSE visits[p].returned =>
                       /\ \A j \in 1..visits[v].nsib :
                             /\ HasChildAt(p, j)
                             /\ visits[ChildAt(p, j)].returned
                       /\ visits[p].result = ChildResults(p, visits[v].nsib)

\* a parent that has returned, with an unreachable child between two
\* siblings that both brought records
C3_Witness ==
    \E v \in Visits :
        /\ visits[v].kind = "unreachable"
        /\ visits[v].parent # 0
        /\ visits[visits[v].parent].returned
        /\ visits[v].pos = 2
        /\ visits[v].nsib = 3
        /\ visits[ChildAt(visits[v].parent, 1)].result # <<>>
        /\ visits[ChildAt(visits[v].parent, 3)].result # <<>>

\* C4: once is_closed() has been seen true at a node, no other node is
\* explored and the run does not end in the completed state.
C4_ClosedIsFatal ==
    closedSeenAt # 0 =>
        /\ Len(visits) = closedSeenAt
        /\ cpc # "done"

(***************************************************************************)
(* Sales replay: stock_process_sales and open_cart_items_per_unit.         *)
(*                                                                         *)
(* A float is modelled by the exact rational [n, d] (d > 0, lowest terms); *)
(* the quantities and costs of the model are chosen so that no amount      *)
(* falls on a rounding tie of the two-decimal format, where binary         *)
(* floating point and exact arithmetic could differ.                       *)
(***************************************************************************)
Abs(x) == IF x < 0 THEN -x ELSE x

RECURSIVE Gcd(_, _)
Gcd(a, b) == IF b = 0 THEN a ELSE Gcd(b, a % b)

Rat(n, d) ==
    LET g == Gcd(Abs(n), d) IN [n |-> n \div g, d |-> d \div g]

Zero == Rat(0, 1)
RAdd(a, b) == Rat(a.n * b.d + b.n * a.d, a.d * b.d)
RTimes(k, a) == Rat(k * a.n, a.d)
RDiv(a, b) == IF b.n > 0 THEN Rat(a.n * b.d, a.d * b.n)
              ELSE Rat(-(a.n * b.d), a.d * (-b.n))

\* int(quantity) of a positive float   (line 809)
IntOf(q) == q.n \div q.d

\* f"{x:.2f}": the amount in hundredths, rounded to nearest (ties to even)
Format2(x) ==
    LET num == 100 * x.n
        fl == num \div x.d
        rem == num % x.d
    IN IF 2 * rem < x.d THEN fl
       ELSE IF 2 * rem > x.d THEN fl + 1
       ELSE IF fl % 2 = 0 THEN fl ELSE fl + 1

\* a field of a row: a number (with or without the pound sign and the
\* thousands separators, which parse_number strips), other text, or no
\* field at all (the row is shorter than the header: DictReader gives None)
Num(n, d) == [t |-> "num", v |-> Rat(n, d)]
BadText == [t |-> "bad", v |-> Zero]
Missing == [t |-> "missing", v |-> Zero]

\* parse_number: float(s_clean), 0.0 on ValueError   (lines 778-784)
parse_number(f) == IF f.t = "num" THEN f.v ELSE Zero

\* s.replace on None raises AttributeError   (line 779)
ParseRaises(f) == f.t = "missing"

\* the Cost column is not asked for
MutRequiredColumns == {"Barserial", "Quantity"}

required_columns == {"Barserial", "Quantity", "Cost"}

Row(b, q, c) == [Barserial |-> b, Quantity |-> q, Cost |-> c]

RowChoices ==
    { Row("A", Num(3, 1), Num(9, 2)),      \* 3 at 1.50
      Row("B", Num(2, 1), Num(8, 1)),      \* 2 at 4.00
      Row("A", Num(1, 1), Num(5, 1)),      \* the same key at another cost
      Row("B", Num(21, 1), Num(10, 1)),    \* more than a batch
      Row("A", Num(20, 1), Num(10, 1)),    \* exactly a batch
      Row("", Num(3, 1), Num(9, 2)),       \* no barserial
      Row("A", Num(-1, 1), Num(9, 2)),     \* a negative quantity
      Row("B", BadText, Num(5, 1)),        \* quantity read as 0.0
      Row("B", Num(2, 1), BadText),
      Row("A", Num(5, 2), Num(5, 1)),      \* quantity 2.5
      Row("A", Missing, Num(5, 1)) }

RowSeqs == UNION { [1..n -> RowChoices] : n \in 0..MaxRows }

Copies(n, x) == [j \in 1..n |-> x]

\* cost_per_unit = cost (the division forgotten)
MutCostPerUnit(cost, quantity) == cost

\* cost_per_unit = cost / quantity if quantity else 0.0   (line 803)
CostPerUnit(cost, quantity) ==
    IF quantity.n # 0 THEN RDiv(cost, quantity) ELSE Zero

\* the body of the loop over the rows for one row   (lines 788-810)
ExpandRow(row) ==
    IF row.Barserial = "" THEN <<>>
    ELSE LET quantity == parse_number(row.Quantity)
             cost == parse_number(row.Cost)
         IN IF quantity.n <= 0 THEN <<>>
            ELSE Copies(IntOf(quantity),
                        <<row.Barserial, CostPerUnit(cost, quantity)>>)

\* the row makes the read fail: except Exception, return   (lines 829-831)
RowRaises(row) ==
    /\ row.Barserial # ""
    /\ ParseRaises(row.Quantity) \/ ParseRaises(row.Cost)

RECURSIVE Flatten(_)
Flatten(ss) == IF ss = <<>> THEN <<>> ELSE ss[1] \o Flatten(Tail(ss))

\* open, the required columns, the rows   (lines 765-831)
ReadCsv ==
    /\ dpc = "read"
    /\ IF \/ ~csv.found
          \/ ~(required_columns \subseteq csv.fieldnames)
          \/ \E j \in DOMAIN csv.rows : RowRaises(csv.rows[j])
       THEN /\ dpc' = "aborted"
            /\ UNCHANGED <<rvars, units, rowUnits>>
       ELSE /\ rowUnits' = [j \in DOMAIN csv.rows |-> ExpandRow(csv.rows[j])]
            /\ units' = Flatten(rowUnits')
            /\ dpc' = "loop"
    /\ UNCHANGED <<rvars, fvars, cvars, csv, argv, finish_transaction, i, cur, batches,
                   failedIn>>

BATCH_SIZE == 20

RECURSIVE KeyIndex(_, _, _)
\* the place of barserial among the keys of the dict, 0 when it is new
KeyIndex(grouped, barserial, j) ==
    IF j > Len(grouped) THEN 0
    ELSE IF grouped[j].barserial = barserial THEN j
    ELSE KeyIndex(grouped, barserial, j + 1)

\* the newest cost is put first: it becomes costs[0]
MutAddCost(costs, cost) == <<cost>> \o costs

\* grouped_items[barserial].append(cost_per_unit)   (line 637)
AddCost(costs, cost) == Append(costs, cost)

RECURSIVE GroupFrom(_, _, _)
GroupFrom(batch, j, grouped) ==
    IF j > Len(batch) THEN grouped
    ELSE LET k == KeyIndex(grouped, batch[j][1], 1) IN
         \* next is bound to the dict after unit j, computed once
         CHOOSE g \in
            { GroupFrom(batch, j + 1, next) :
                next \in
                  { IF k = 0
                    THEN Append(grouped, [barserial |-> batch[j][1],
                                          costs |-> <<batch[j][2]>>])
                    ELSE [grouped EXCEPT
                            ![k].costs = AddCost(@, batch[j][2])] } } : TRUE

\* the first unit of the batch is left out of the groups
MutGroupItems(batch) == GroupFrom(batch, 2, <<>>)

\* grouped_items[barserial].append(cost_per_unit): a dict, in insertion
\* order   (lines 635-637)
GroupItems(batch) == GroupFrom(batch, 1, <<>>)

RECURSIVE MutBatchTotalFrom(_, _)
MutBatchTotalFrom(grouped, j) ==
    IF j > Len(grouped) THEN Zero
    ELSE RAdd(grouped[j].costs[1], MutBatchTotalFrom(grouped, j + 1))

\* batch_total += cost_per_unit (the quantity forgotten)
MutBatchTotal(grouped) == MutBatchTotalFrom(grouped, 1)

RECURSIVE BatchTotalFrom(_, _)
BatchTotalFrom(grouped, j) ==
    IF j > Len(grouped) THEN Zero
    ELSE RAdd(RTimes(Len(grouped[j].costs), grouped[j].costs[1]),
              BatchTotalFrom(grouped, j + 1))

\* batch_total += len(costs) * costs[0]   (lines 701-705)
BatchTotal(grouped) == BatchTotalFrom(grouped, 1)

SalesScripts == {0, DEFAULT_MAX_RETRIES}   \* 429 answers before success

\* batch_end = min(i + batch_size, len(units))   (line 588)
BatchEnd(start, n) == Min(start + BATCH_SIZE, n)

\* batch = units[i:batch_end]   (line 589)
Slice(seq, start, end) == SubSeq(seq, start + 1, end)

\* i = batch_end + 1 (a unit is skipped)
MutAfterCartFailure(batch_end) == batch_end + 1

\* i = batch_end; continue   (lines 613-614)
AfterCartFailure(batch_end) == batch_end

\* the command lines of a sales run: with and without --save
ArgvChoices ==
    { <<"main.py", "stock_process_sales", "sales.csv">>,
      <<"main.py", "stock_process_sales", "sales.csv", "--save">> }

\* finish_transaction = True whatever the command line
MutSaveFlag(args) == TRUE

\* finish_transaction = False; if "--save" in sys.argv: finish_transaction =
\* True   (lines 1027-1032)
SaveFlag(args) == \E j \in DOMAIN args : args[j] = "--save"

Stage(name) == [cur EXCEPT !.stages = Append(@, name)]

\* while i < len(units): the batch, then fetch_with_retry(page, HOME_URL)
\* (lines 587-595)
BatchStart ==
    /\ dpc = "loop"
    /\ i < Len(units)
    /\ LET batch_end == BatchEnd(i, Len(units))
           batch == Slice(units, i, batch_end)
       IN /\ cur' = [NoBatch EXCEPT !.batch_num = (i \div BATCH_SIZE) + 1,
                                     !.batch = batch,
                                     !.batch_end = batch_end]
          /\ batches' = Append(batches,
                [first |-> i, units |-> batch, cart |-> "none",
                 paid |-> -1])
    /\ \E k \in SalesScripts :
          fetch' = FetchStart("home", DEFAULT_MAX_RETRIES, k, "200")
    /\ dpc' = "home"
    /\ UNCHANGED <<rvars, pageClosed, cvars, csv, argv, finish_transaction, units, i,
                   rowUnits, failedIn>>

\* the loop is over   (line 587)
LoopEnd ==
    /\ dpc = "loop"
    /\ i >= Len(units)
    /\ dpc' = "done"
    /\ UNCHANGED <<rvars, fvars, cvars, csv, argv, finish_transaction, units, i, cur,
                   rowUnits, batches, failedIn>>

\* the result of fetch_with_retry is dropped; wait_for_load_state
\* (lines 595-596)
HomeLoaded ==
    /\ dpc = "home"
    /\ fetch.pc = "ret"
    /\ fetch.caller = "home"
    /\ afterNone' = IF fetch.result = "None"
                    THEN afterNone \cup {"open_cart_items_per_unit"}
                    ELSE afterNone
    /\ fetch' = NoFetch
    /\ cur' = Stage("home")
    /\ dpc' = "sale"
    /\ UNCHANGED <<rvars, pageClosed, cpc, stack, sp, files, all_rows,
                   MAX_CATEGORY_DEPTH, visits, listed, closedSeenAt, csv,
                   argv, finish_transaction, units, i, rowUnits, batches, failedIn>>

\* the Sale button is waited for and clicked   (lines 599-605)
SaleClick ==
    /\ dpc = "sale"
    /\ cur' = Stage("sale")
    /\ dpc' = "cart"
    /\ UNCHANGED <<rvars, fvars, cvars, csv, argv, finish_transaction, units, i, rowUnits,
                   batches, failedIn>>

\* re.search(r"/cart/(\d+)/items", page.url) matches   (lines 608-620)
CartIdFound ==
    /\ dpc = "cart"
    /\ cur' = [cur EXCEPT !.cart = "ok"]
    /\ batches' = [batches EXCEPT ![Len(batches)].cart = "ok"]
    /\ dpc' = "clear"
    /\ UNCHANGED <<rvars, fvars, cvars, csv, argv, finish_transaction, units, i, rowUnits,
                   failedIn>>

\* no match: the error is logged, i = batch_end, continue   (lines 611-614)
CartIdMissing ==
    /\ dpc = "cart"
    /\ cur' = [cur EXCEPT !.cart = "missing"]
    /\ batches' = [batches EXCEPT ![Len(batches)].cart = "missing"]
    /\ i' = AfterCartFailure(cur.batch_end)
    /\ dpc' = "loop"
    /\ UNCHANGED <<rvars, fvars, cvars, csv, argv, finish_transaction, units, rowUnits,
                   failedIn>>

\* the Clear button, when it is there, is clicked and confirmed; then the
\* units of the batch are grouped   (lines 623-639)
ClearCart ==
    /\ dpc = "clear"
    /\ \E visible \in BOOLEAN :
          cur' = [cur EXCEPT
                    !.stages = IF visible THEN Append(@, "clear") ELSE @,
                    !.grouped_items = GroupItems(cur.batch)]
    /\ dpc' = "add"
    /\ UNCHANGED <<rvars, fvars, cvars, csv, argv, finish_transaction, units, i, rowUnits,
                   batches, failedIn>>

\* for barserial in grouped_items: fill, Enter   (lines 644-647)
AddItem ==
    /\ dpc = "add"
    /\ cur.added < Len(cur.grouped_items)
    /\ cur' = [cur EXCEPT !.added = @ + 1, !.stages = Append(@, "add")]
    /\ UNCHANGED <<rvars, fvars, cvars, csv, argv, finish_transaction, dpc, units, i,
                   rowUnits, batches, failedIn>>

\* page.goto(update_url)   (lines 651-653)
GotoUpdate ==
    /\ dpc = "add"
    /\ cur.added = Len(cur.grouped_items)
    /\ cur' = Stage("update")
    /\ dpc' = "price"
    /\ UNCHANGED <<rvars, fvars, cvars, csv, argv, finish_transaction, units, i, rowUnits,
                   batches, failedIn>>

\* cost_per_unit = costs[-1]: the last cost of the key, not the first
MutFill(idx, field, entry) ==
    [index |-> idx, barserial |-> entry.barserial, field |-> field,
     value |-> CASE field = "quantity" -> Len(entry.costs)
                 [] field = "price" -> Format2(entry.costs[Len(entry.costs)])
                 [] OTHER -> 0,
     text |-> IF field = "discount_reason" THEN "." ELSE ""]

\* what is typed into one field of the form line idx   (lines 656-677)
Fill(idx, field, entry) ==
    [index |-> idx, barserial |-> entry.barserial, field |-> field,
     value |-> CASE field = "quantity" -> Len(entry.costs)
                 [] field = "price" -> Format2(entry.costs[1])
                 [] OTHER -> 0,
     text |-> IF field = "discount_reason" THEN "." ELSE ""]

NextField(field) ==
    CASE field = "quantity" -> "price"
      [] field = "price" -> "discount_reason"
      [] OTHER -> "quantity"

\* for idx, barserial in enumerate(grouped_items.keys()): the quantity, the
\* price and the discount reason of #cartitems-{idx}   (lines 656-679)
PriceFill ==
    /\ dpc = "price"
    /\ cur.idx < Len(cur.grouped_items)
    /\ cur' = [cur EXCEPT
                 !.form = Append(@, Fill(cur.idx, cur.field,
                                         cur.grouped_items[cur.idx + 1])),
                 !.field = NextField(@),
                 !.idx = IF cur.field = "discount_reason" THEN @ + 1 ELSE @]
    /\ UNCHANGED <<rvars, fvars, cvars, csv, argv, finish_transaction, dpc, units, i,
                   rowUnits, batches, failedIn>>

\* the Save button   (lines 682-691)
SaveClick ==
    /\ dpc = "price"
    /\ cur.idx = Len(cur.grouped_items)
    /\ cur' = Stage("save")
    /\ dpc' = "method"
    /\ UNCHANGED <<rvars, fvars, cvars, csv, argv, finish_transaction, units, i, rowUnits,
                   batches, failedIn>>

\* the Standard payment method   (lines 694-699)
SelectStandard ==
    /\ dpc = "method"
    /\ cur' = Stage("method")
    /\ dpc' = "pay"
    /\ UNCHANGED <<rvars, fvars, cvars, csv, argv, finish_transaction, units, i, rowUnits,
                   batches, failedIn>>

\* batch_total from grouped_items; payment_input.fill(f"{batch_total:.2f}")
\* (lines 701-719)
PayFill ==
    /\ dpc = "pay"
    /\ \E amount \in {Format2(BatchTotal(cur.grouped_items))} :
          /\ cur' = [cur EXCEPT !.paid = amount,
                                !.stages = Append(@, "pay")]
          /\ batches' = [batches EXCEPT ![Len(batches)].paid = amount]
    /\ dpc' = "finish"
    /\ UNCHANGED <<rvars, fvars, cvars, csv, argv, finish_transaction, units, i, rowUnits,
                   failedIn>>

\* if finish_transaction: the Finish button   (lines 723-729)
Finish ==
    /\ dpc = "finish"
    /\ finish_transaction
    /\ cur' = Stage("finish")
    /\ dpc' = "receipt"
    /\ UNCHANGED <<rvars, fvars, cvars, csv, argv, finish_transaction, units, i, rowUnits,
                   batches, failedIn>>

\* else: "Skipping Finish button"   (lines 730-731)
SkipFinish ==
    /\ dpc = "finish"
    /\ ~finish_transaction
    /\ dpc' = "receipt"
    /\ UNCHANGED <<rvars, fvars, cvars, csv, argv, finish_transaction, units, i, cur,
                   rowUnits, batches, failedIn>>

\* branch_name; save_receipt_pdf_in_context: a new page and
\* fetch_with_retry(page, receipt_url)   (lines 733-744, 542-551)
ReceiptOpen ==
    /\ dpc = "receipt"
    /\ \E k \in SalesScripts :
          fetch' = FetchStart("receipt", DEFAULT_MAX_RETRIES, k, "200")
    /\ cur' = Stage("receipt")
    /\ dpc' = "receipt_fetch"
    /\ UNCHANGED <<rvars, pageClosed, cvars, csv, argv, finish_transaction, units, i,
                   rowUnits, batches, failedIn>>

\* if response is None: close the page and return; else page.pdf
\* (lines 552-567)
ReceiptSaved ==
    /\ dpc = "receipt_fetch"
    /\ fetch.pc = "ret"
    /\ fetch.caller = "receipt"
    /\ cur' = IF fetch.result = "None" THEN cur ELSE Stage("pdf")
    /\ fetch' = NoFetch
    /\ dpc' = "cooldown"
    /\ UNCHANGED <<rvars, pageClosed, cvars, csv, argv, finish_transaction, units, i,
                   rowUnits, batches, failedIn>>

\* i is left where the batch started
MutAfterBatch(start, batch_end) == start

\* Move to next batch: i = batch_end   (lines 753-754)
AfterBatch(start, batch_end) == batch_end

\* wait_for_timeout; i = batch_end   (lines 750-754)
Cooldown ==
    /\ dpc = "cooldown"
    /\ i' = AfterBatch(i, cur.batch_end)
    /\ dpc' = "loop"
    /\ UNCHANGED <<rvars, fvars, cvars, csv, argv, finish_transaction, units, cur,
                   rowUnits, batches, failedIn>>

\* a wait for an element or for the page times out, or an element is not
\* there: Playwright raises, and neither open_cart_items_per_unit nor
\* stock_process_sales (line 834) nor main catches it
StepFails ==
    /\ \/ dpc \in {"sale", "clear", "add", "price", "method", "pay",
                   "receipt"}
       \/ dpc = "finish" /\ finish_transaction
       \/ dpc = "home" /\ fetch.pc = "ret"
    /\ dpc' = "raised"
    /\ failedIn' = cur.batch_num
    /\ UNCHANGED <<rvars, fvars, cvars, csv, argv, finish_transaction, units, i, cur,
                   rowUnits, batches>>

InitSales ==
    /\ fetch = NoFetch
    /\ pageClosed = FALSE
    /\ CrawlIdle
    /\ csv \in {[found |-> FALSE, fieldnames |-> {}, rows |-> <<>>]}
          \cup [found : {TRUE},
                fieldnames : {required_columns, {"Barserial", "Quantity"}},
                rows : RowSeqs]
    /\ argv \in ArgvChoices
    /\ finish_transaction = SaveFlag(argv)
    /\ dpc = "read"
    /\ units = <<>>
    /\ i = 0
    /\ cur = NoBatch
    /\ rowUnits = <<>>
    /\ batches = <<>>
    /\ failedIn = 0
    /\ RefundsIdle

NextSales ==
    \/ ReadCsv
    \/ BatchStart
    \/ LoopEnd
    \/ FetchGoto
    \/ FetchSleep
    \/ FetchExhausted
    \/ HomeLoaded
    \/ SaleClick
    \/ CartIdFound
    \/ CartIdMissing
    \/ ClearCart
    \/ AddItem
    \/ GotoUpdate
    \/ PriceFill
    \/ SaveClick
    \/ SelectStandard
    \/ PayFill
    \/ Finish
    \/ SkipFinish
    \/ ReceiptOpen
    \/ ReceiptSaved
    \/ Cooldown
    \/ StepFails

SpecSales == InitSales /\ [][NextSales]_vars

\* The coroutine is the only task of the event loop and each of its awaits
\* ends, by its result or by the timeout of the wait: a step that can be
\* taken is taken.
\* the rows the batch loop is run on for its progress: a batch exactly, and
\* a batch and one unit more
LoopRows ==
    { Row("B", Num(21, 1), Num(10, 1)),
      Row("A", Num(20, 1), Num(10, 1)) }

InitSalesFair ==
    /\ InitSales
    /\ csv.found =>
          /\ csv.fieldnames = required_columns
          /\ \A r \in DOMAIN csv.rows : csv.rows[r] \in LoopRows

SpecSalesFair == InitSalesFair /\ [][NextSales]_vars /\ WF_vars(NextSales)

(***************************************************************************)
(* Claims about the sales replay.                                          *)
(***************************************************************************)
\* the distinct keys of a batch, and for a key: its units, the place of its
\* first unit, the cost of that unit, and its rank in order of first
\* occurrence (from 0)
Keys(batch) == {batch[j][1] : j \in DOMAIN batch}
Places(batch, key) == {j \in DOMAIN batch : batch[j][1] = key}
FirstPlace(batch, key) ==
    CHOOSE j \in Places(batch, key) : \A l \in Places(batch, key) : j <= l
FirstCost(batch, key) == batch[FirstPlace(batch, key)][2]
Rank(batch, key) ==
    Cardinality({k \in Keys(batch) :
                    FirstPlace(batch, k) < FirstPlace(batch, key)})

RECURSIVE SumOver(_, _)
\* the sum over the keys ks of (number of units) x (cost of the first unit)
SumOver(batch, ks) ==
    IF ks = {} THEN Zero
    ELSE LET k == CHOOSE x \in ks : TRUE IN
         RAdd(RTimes(Cardinality(Places(batch, k)), FirstCost(batch, k)),
              SumOver(batch, ks \ {k}))

GroupTotal(batch) == SumOver(batch, Keys(batch))

\* hundredths is amount x, rounded to the nearest hundredth
IsNearestHundredth(hundredths, x) ==
    2 * Abs(100 * x.n - hundredths * x.d) <= x.d

\* a rational equals another
REq(a, b) == a.n * b.d = b.n * a.d

\* C5: a step failure inside a batch does not abort the run: the driver is
\* not ended by it.
C5_FailureScopedToBatch == failedIn # 0 => dpc # "raised"

\* C6: when the cart identifier is not found, nothing is entered, priced,
\* paid, finalized or captured for that batch, and the next batch starts at
\* the unit right after it.
C6_CartIdFailureSkipsBatch ==
    \A b \in DOMAIN batches :
        batches[b].cart = "missing" =>
            IF b < Len(batches)
            THEN batches[b + 1].first =
                    batches[b].first + Len(batches[b].units)
            ELSE /\ cur.stages = <<"home", "sale">>
                 /\ cur.added = 0
                 /\ cur.form = <<>>
                 /\ cur.paid = -1
                 /\ dpc \in {"loop", "done"}
                 /\ i = batches[b].first + Len(batches[b].units)

\* a batch without cart identifier, and the batch after it paid
C6_Witness ==
    \E b \in DOMAIN batches :
        /\ batches[b].cart = "missing"
        /\ b < Len(batches)
        /\ cur.batch_num = b + 1
        /\ cur.paid # -1

\* C7 as stated: the amount filled into the payment field equals the sum
\* over the keys of the batch of group size x canonical cost.
C7_PaymentEqualsBatchTotal ==
    cur.paid # -1 => REq(Rat(cur.paid, 100), GroupTotal(cur.batch))

\* C7, amended: the amount filled into the payment field is the sum over the
\* keys of the batch of group size x canonical cost, computed from the
\* units of the batch, rounded to two decimals.
C7_PaymentIsRoundedBatchTotal ==
    cur.paid # -1 => IsNearestHundredth(cur.paid, GroupTotal(cur.batch))

\* the batch {A: 3 at 1.50, B: 2 at 4.00} paid with 12.50
C7_Witness ==
    /\ Len(cur.batch) = 5
    /\ Cardinality(Places(cur.batch, "A")) = 3
    /\ Cardinality(Places(cur.batch, "B")) = 2
    /\ FirstCost(cur.batch, "A") = Rat(3, 2)
    /\ FirstCost(cur.batch, "B") = Rat(4, 1)
    /\ cur.paid = 1250

ReadDone == dpc \notin {"off", "read", "aborted"}

\* C8 as stated: a row with quantity q and cost c gives exactly q units of
\* cost c / q each, and no unit when q <= 0.
C8_RowGivesQUnits ==
    ReadDone =>
        \A j \in DOMAIN csv.rows :
            LET q == parse_number(csv.rows[j].Quantity)
                c == parse_number(csv.rows[j].Cost)
            IN IF q.n <= 0 THEN rowUnits[j] = <<>>
               ELSE /\ q.d = 1
                    /\ Len(rowUnits[j]) = q.n
                    /\ \A u \in DOMAIN rowUnits[j] :
                          REq(RTimes(q.n, rowUnits[j][u][2]), RTimes(q.d, c))

\* C8, amended: when the file is read, a row with a barserial, quantity q
\* and cost c gives int(q) units (q units for a whole q), each the
\* barserial with cost c / q; a row with q <= 0 or without barserial gives
\* none; units holds the units of the rows in row order.  When a row lacks
\* its quantity or cost field the read fails and there are no units.
C8_UnitExpansion ==
    /\ dpc = "aborted" => units = <<>>
    /\ ReadDone =>
        /\ units = Flatten(rowUnits)
        /\ \A j \in DOMAIN csv.rows :
            LET q == parse_number(csv.rows[j].Quantity)
                c == parse_number(csv.rows[j].Cost)
                n == Len(rowUnits[j])
            IN IF q.n <= 0 \/ csv.rows[j].Barserial = ""
               THEN n = 0
               ELSE /\ n * q.d <= q.n
                    /\ q.n < (n + 1) * q.d
                    /\ \A u \in DOMAIN rowUnits[j] :
                          /\ rowUnits[j][u][1] = csv.rows[j].Barserial
                          /\ REq(RTimes(q.n, rowUnits[j][u][2]),
                                 RTimes(q.d, c))

\* a row of 3 for 4.50 expanded into 3 units of 1.50, and a row of -1 into
\* none
C8_Witness ==
    /\ ReadDone
    /\ Len(csv.rows) = 2
    /\ csv.rows[1] = Row("A", Num(3, 1), Num(9, 2))
    /\ rowUnits[1] = <<<<"A", Rat(3, 2)>>, <<"A", Rat(3, 2)>>,
                        <<"A", Rat(3, 2)>>>>
    /\ csv.rows[2] = Row("A", Num(-1, 1), Num(9, 2))
    /\ rowUnits[2] = <<>>

CeilDiv(n, d) == (n + d - 1) \div d

RECURSIVE BatchUnits(_)
BatchUnits(bs) == IF bs = <<>> THEN <<>> ELSE bs[1].units \o BatchUnits(Tail(bs))

\* C9: when the driver has ended, it has formed ceil(n / 20) batches, all
\* but possibly the last of 20 units, which put end to end are the units.
C9_Batching ==
    dpc \in {"done", "raised"} =>
        /\ Len(batches) = CeilDiv(Len(units), BATCH_SIZE)
        /\ \A b \in 1..(Len(batches) - 1) :
              Len(batches[b].units) = BATCH_SIZE
        /\ BatchUnits(batches) = units

\* C10 as stated: the i-th distinct key of the batch is written to form
\* index i, with the number of its units and the cost of its first unit.
C10_FormCarriesCanonicalCost ==
    \A e \in DOMAIN cur.form :
        LET f == cur.form[e] IN
        /\ f.index = Rank(cur.batch, f.barserial)
        /\ f.field = "quantity" =>
              f.value = Cardinality(Places(cur.batch, f.barserial))
        /\ f.field = "price" =>
              REq(Rat(f.value, 100), FirstCost(cur.batch, f.barserial))

HasFill(key, field) ==
    \E e \in DOMAIN cur.form :
        cur.form[e].barserial = key /\ cur.form[e].field = field

\* C10, amended: the i-th distinct key of the batch is written to form
\* index i, with the number of its units and the cost of its first unit
\* rounded to two decimals; when the form is saved every key of the batch
\* has its quantity and its price.
C10_FormByDiscoveryOrder ==
    /\ \A e \in DOMAIN cur.form :
          LET f == cur.form[e] IN
          /\ f.barserial \in Keys(cur.batch)
          /\ f.index = Rank(cur.batch, f.barserial)
          /\ f.field = "quantity" =>
                f.value = Cardinality(Places(cur.batch, f.barserial))
          /\ f.field = "price" =>
                IsNearestHundredth(f.value,
                                   FirstCost(cur.batch, f.barserial))
    /\ dpc \in {"method", "pay", "finish", "receipt", "receipt_fetch",
                "cooldown"} =>
          \A k \in Keys(cur.batch) :
              HasFill(k, "quantity") /\ HasFill(k, "price")

\* the second key of a batch written to form index 1: B, 2 units at 4.00,
\* after A with two costs
C10_Witness ==
    /\ \E e \in DOMAIN cur.form :
          cur.form[e] = [index |-> 1, barserial |-> "B", field |-> "price",
                         value |-> 400, text |-> ""]
    /\ \E e \in DOMAIN cur.form :
          cur.form[e] = [index |-> 1, barserial |-> "B",
                         field |-> "quantity", value |-> 2, text |-> ""]
    /\ Rank(cur.batch, "A") = 0

InStages(name) == \E j \in DOMAIN cur.stages : cur.stages[j] = name

SaveRequested == \E j \in DOMAIN argv : argv[j] = "--save"

\* C11: the Finish button is clicked for a batch only when --save was given
\* (the flag is false without it); a batch that has passed the finish step
\* has clicked Finish iff --save was given, has its payment filled either
\* way, and its receipt capture is started either way.
C11_FinishOnlyOnRequest ==
    /\ InStages("finish") => SaveRequested
    /\ dpc \in {"receipt", "receipt_fetch", "cooldown"} =>
          /\ InStages("finish") <=> SaveRequested
          /\ InStages("pay")
          /\ cur.paid # -1
    /\ dpc \in {"receipt_fetch", "cooldown"} => InStages("receipt")

\* without --save: the second batch paid and its receipt saved, Finish not
\* clicked
C11_Witness ==
    /\ ~SaveRequested
    /\ dpc = "cooldown"
    /\ cur.batch_num = 2
    /\ cur.paid # -1
    /\ InStages("pdf")
    /\ ~InStages("finish")

(***************************************************************************)
(* Claims about the table files.                                           *)
(***************************************************************************)
IsTmp(name) ==
    /\ Len(name) >= 4
    /\ SubSeq(name, Len(name) - 3, Len(name)) = <<".", "t", "m", "p">>

TableFiles == {f \in files : ~IsTmp(f.name)}

\* the result set explore_category returned for the j-th top-level category
ResultOf(j) == visits[ChildAt(0, j)].result

\* the top-level categories, already gone through, that brought records and
\* whose table has that file name
WrittenTo(name) ==
    {j \in 1..(sp.i - 1) :
        /\ j <= Len(sp.top_categories)
        /\ FileName(sp.top_categories[j]) = name
        /\ ResultOf(j) # <<>>}

LastOf(S) == CHOOSE j \in S : \A k \in S : k <= j

\* the record set a table file was written from
RecordsOf(f) == ResultOf(LastOf(WrittenTo(f.name)))

\* maxDepth of a record set: the length of its longest path
DepthOf(rows) ==
    CHOOSE d \in 0..Len(LevelNames) :
        /\ \A j \in DOMAIN rows : Len(rows[j][1]) <= d
        /\ rows # <<>> => \E j \in DOMAIN rows : Len(rows[j][1]) = d

\* C12: the header of every table file has maxDepth + 9 columns, and every
\* data row has as many columns as the header.
C12_RowsAsWideAsHeader ==
    \A f \in TableFiles :
        /\ Len(f.header) = DepthOf(RecordsOf(f)) + 9
        /\ \A r \in DOMAIN f.rows : Len(f.rows[r]) = Len(f.header)

\* C13: in every table file there is one data row per record, in order:
\* the whole path, then maxDepth - len(path) empty strings and nothing else,
\* then the cells of the record.
C13_PaddingToMaxDepth ==
    \A f \in TableFiles :
        LET rows == RecordsOf(f)
            d == DepthOf(rows)
        IN /\ Len(f.rows) = Len(rows)
           /\ \A r \in DOMAIN f.rows :
                 LET path == rows[r][1]
                     cells == rows[r][2]
                     line == f.rows[r]
                 IN /\ Len(line) = d + Len(cells)
                    /\ SubSeq(line, 1, Len(path)) = path
                    /\ \A k \in (Len(path) + 1)..d : line[k] = ""
                    /\ SubSeq(line, d + 1, Len(line)) = cells

\* a table of depth 3 with a record of path length 1 (two empty strings)
\* and a record of path length 3 (none)
C13_Witness ==
    \E f \in TableFiles :
        /\ Len(f.rows) = 2
        /\ Len(RecordsOf(f)[1][1]) = 1
        /\ Len(RecordsOf(f)[2][1]) = 3
        /\ f.rows[1] = <<T1, "", "">> \o RowA
        /\ f.rows[2] = <<T1, Ka, Kb>> \o RowA

\* C14: a table file under its final name always holds a complete table:
\* the header and every row of the record set of the last category written
\* to that name.  While the next table of that name is being written, it is
\* still the previous one.
C14_AtomicWrite ==
    \A f \in TableFiles :
        /\ WrittenTo(f.name) # {}
        /\ f.header = category_headers(DepthOf(RecordsOf(f))) \o leaf_headers
        /\ Len(f.rows) = Len(RecordsOf(f))
        /\ f = TableFile(sp.top_categories[LastOf(WrittenTo(f.name))],
                         RecordsOf(f))

\* the second table of a name half written to the temporary file, the
\* first one still under the final name
C14_Witness ==
    /\ cpc = "sp_line"
    /\ sp.i = 2
    /\ LET filename == FileName(sp.top_categories[2])
           tmp == TmpName(filename)
       IN /\ HasFile(tmp)
          /\ Len(sp.rows) = 2
          /\ Len(FileAt(tmp).rows) = 1
          /\ HasFile(filename)
          /\ FileAt(filename).rows # <<>>
          /\ FileAt(filename).rows[1] # FileAt(tmp).rows[1]

\* C15 as stated: when the crawl has completed there is one table file for
\* each top-level category, named from its sanitized name.
C15_OneFilePerCategory ==
    cpc = "done" =>
        /\ \A j \in DOMAIN sp.top_categories :
              HasFile(FileName(sp.top_categories[j]))
        /\ Cardinality(TableFiles) = Len(sp.top_categories)

\* C15, amended: when the crawl has completed, the table files are those of
\* the top-level categories that brought records, one per sanitized name
\* (runs of other characters collapsed to one '_', '.csv' appended), each
\* holding the table of the last category of that name; no temporary file
\* is left.
C15_OneFilePerNameWithRecords ==
    /\ FileName(T1) = <<"T", "1", ".", "c", "s", "v">>
    /\ FileName(T2) = <<"T", "_", "2", ".", "c", "s", "v">>
    /\ FileName(T3) = <<"T", "_", "2", ".", "c", "s", "v">>
    /\ cpc = "done" =>
          /\ files = TableFiles
          /\ {f.name : f \in files} =
                {FileName(sp.top_categories[j]) :
                    j \in {k \in DOMAIN sp.top_categories :
                              ResultOf(k) # <<>>}}
          /\ \A f, g \in files : f.name = g.name => f = g
          /\ \A f \in files :
                f.rows = [r \in DOMAIN RecordsOf(f) |->
                            PaddedRow(RecordsOf(f)[r][1], RecordsOf(f)[r][2],
                                      DepthOf(RecordsOf(f)))]

\* a completed crawl of "T /2" and "T_2", both with records: one file T_2.csv
\* holding the table of the second
C15_Witness ==
    /\ cpc = "done"
    /\ sp.top_categories = <<T2, T3>>
    /\ ResultOf(1) # <<>>
    /\ ResultOf(2) # <<>>
    /\ ResultOf(1) # ResultOf(2)
    /\ Cardinality(files) = 1
    /\ \E f \in files : f.rows[1][1] = T3

(***************************************************************************)
(* Claims about the classification of a node.                              *)
(***************************************************************************)
ChildrenOf(v) == {w \in Visits : visits[w].parent = v}

NineBlanks == <<"", "", "", "", "", "", "", "", "">>

\* C16: a node without header whose page has the empty marker returns
\* exactly one record, its path with 9 blank fields, and no link of it is
\* explored.
C16_EmptyMarkerGivesOneBlankRecord ==
    \A v \in Visits :
        visits[v].kind = "empty" =>
            /\ visits[v].returned
            /\ visits[v].result = <<<<visits[v].path, NineBlanks>>>>
            /\ ChildrenOf(v) = {}

\* an empty grandchild, with a sibling explored after it
C16_Witness ==
    \E v, w \in Visits :
        /\ visits[v].kind = "empty"
        /\ Len(visits[v].path) = 3
        /\ visits[w].parent = visits[v].parent
        /\ w > v
        /\ visits[w].returned

\* C17: a node with neither header nor empty marker ends its branch with a
\* warning and without records, unlike the empty-marker node, which gives
\* one blank record.
C17_SilentBranchWarns ==
    \A v \in Visits :
        visits[v].kind = "silent" =>
            /\ visits[v].returned
            /\ visits[v].result = <<>>
            /\ visits[v].result # <<<<visits[v].path, NineBlanks>>>>
            /\ ChildrenOf(v) = {}
            /\ visits[v].log # <<>>

\* C18: a leaf node returns one record per line of its table, in the order
\* of the lines, each with the path of the node, and no link of it is
\* explored.
C18_LeafGivesOneRecordPerRow ==
    \A v \in Visits :
        visits[v].kind = "leaf" =>
            /\ visits[v].returned
            /\ Len(visits[v].result) = Len(visits[v].table)
            /\ \A j \in DOMAIN visits[v].table :
                  visits[v].result[j] = <<visits[v].path, visits[v].table[j]>>
            /\ ChildrenOf(v) = {}

\* a leaf below a category, with two lines
C18_Witness ==
    \E v \in Visits :
        /\ visits[v].kind = "leaf"
        /\ visits[v].path = <<T1, Ka>>
        /\ visits[v].table = <<RowA, RowB>>
        /\ visits[v].result = <<<<(<<T1, Ka>>), RowA>>, <<(<<T1, Ka>>), RowB>>>>

RECURSIVE IsBelow(_, _)
\* visit x was made in the subtree of visit a
IsBelow(x, a) ==
    /\ x # 0
    /\ \/ visits[x].parent = a
       \/ IsBelow(visits[x].parent, a)

\* C19: the links of a category are explored in their order, one call per
\* link (equal names included), each with path + [name], a link only after
\* the whole subtree of the link before it; the result of the category is
\* the concatenation of the results of its links in that order.
C19_DepthFirstInLinkOrder ==
    \A p \in Visits :
        visits[p].kind = "category" =>
            LET kids == visits[p].kids IN
            /\ \A w \in ChildrenOf(p) : visits[w].pos \in DOMAIN kids
            /\ \A j \in DOMAIN kids :
                  HasChildAt(p, j) =>
                      LET w == ChildAt(p, j) IN
                      /\ Cardinality({x \in ChildrenOf(p) :
                                          visits[x].pos = j}) = 1
                      /\ visits[w].path = visits[p].path \o <<kids[j]>>
                      /\ w > p
                      /\ j > 1 =>
                            /\ HasChildAt(p, j - 1)
                            /\ ChildAt(p, j - 1) < w
                            /\ visits[ChildAt(p, j - 1)].returned
                            /\ \A x \in (ChildAt(p, j - 1) + 1)..(w - 1) :
                                  IsBelow(x, ChildAt(p, j - 1))
            /\ visits[p].returned =>
                  /\ \A j \in DOMAIN kids : HasChildAt(p, j)
                  /\ visits[p].result = ChildResults(p, Len(kids))

\* a category with two links of the same name, both explored, both with
\* records, and a subtree below the first
C19_Witness ==
    \E p \in Visits :
        /\ visits[p].returned
        /\ visits[p].kids = <<Ka, Ka>>
        /\ ChildAt(p, 2) > ChildAt(p, 1) + 1
        /\ visits[ChildAt(p, 1)].result # <<>>
        /\ visits[ChildAt(p, 2)].result # <<>>
        /\ Len(visits[p].result) =
              Len(visits[ChildAt(p, 1)].result)
                + Len(visits[ChildAt(p, 2)].result)

\* the tree T1 > a > {a, b}, one of a and b a leaf table with the lines
\* RowA and RowB and the other one with the empty marker, and the table of
\* T1 written
C20_Scenario ==
    /\ Len(visits) >= 4
    /\ sp.top_categories[1] = T1
    /\ sp.i >= 2
    /\ visits[1].kids = <<Ka>>
    /\ visits[2].kids = <<Ka, Kb>>
    /\ \/ visits[3].kind = "leaf" /\ visits[3].table = <<RowA, RowB>>
             /\ visits[4].kind = "empty"
       \/ visits[4].kind = "leaf" /\ visits[4].table = <<RowA, RowB>>
             /\ visits[3].kind = "empty"

\* C20: in that scenario the table of T1 has three category columns and
\* exactly three data rows: the two lines of the leaf with its 3-level
\* path, and one row of the 3-level path of the empty node with 9 blanks.
C20_EndToEnd ==
    C20_Scenario =>
        /\ HasFile(FileName(T1))
        /\ LET f == FileAt(FileName(T1)) IN
           /\ f.header = <<"Category Level 1", "Category Level 2",
                           "Category Level 3", "Barserial", "Name",
                           "Quantity", "Retail", "Cost", "VAT", "Net",
                           "Total Margin", "Margin %">>
           /\ f.rows = IF visits[3].kind = "leaf"
                       THEN <<(<<T1, Ka, Ka>>) \o RowA,
                              (<<T1, Ka, Ka>>) \o RowB,
                              (<<T1, Ka, Kb>>) \o NineBlanks>>
                       ELSE <<(<<T1, Ka, Ka>>) \o NineBlanks,
                              (<<T1, Ka, Kb>>) \o RowA,
                              (<<T1, Ka, Kb>>) \o RowB>>

\* the scenario, leaf first, and the crawl completed
C20_Witness ==
    /\ C20_Scenario
    /\ visits[3].kind = "leaf"
    /\ cpc = "done"

(***************************************************************************)
(* Claims about reading the sales file.                                    *)
(***************************************************************************)
AllColumns == {"Barserial", "Quantity", "Cost"} \subseteq csv.fieldnames

\* C26: when the sales file is not found or lacks one of the columns
\* Barserial, Quantity, Cost, the run is aborted at the read: there are no
\* units, no batch is formed, no page is loaded and no cart is created.
C26_AbortBeforeAnyBatch ==
    (~csv.found \/ ~AllColumns) =>
        /\ dpc \in {"read", "aborted"}
        /\ units = <<>>
        /\ batches = <<>>
        /\ cur = NoBatch
        /\ i = 0
        /\ fetch = NoFetch

\* a file without Cost column whose rows would give units, aborted
C26_Witness ==
    /\ dpc = "aborted"
    /\ csv.found
    /\ csv.fieldnames = {"Barserial", "Quantity"}
    /\ Len(csv.rows) = 2
    /\ csv.rows[1] = Row("A", Num(3, 1), Num(9, 2))

\* C27: with the file found and its columns there, a quantity or cost that
\* cannot be read as a number, malformed or missing, never aborts the run:
\* every row is gone through and the batches are processed.
C27_ParseFailureNeverAborts ==
    (csv.found /\ AllColumns) =>
        /\ dpc # "aborted"
        /\ dpc # "read" => Len(rowUnits) = Len(csv.rows)

LastPlace(batch, key) ==
    CHOOSE j \in Places(batch, key) : \A l \in Places(batch, key) : l <= j
LastCost(batch, key) == batch[LastPlace(batch, key)][2]

\* the keys of the batch whose units do not all have the same cost
MixedKeys(batch) ==
    {k \in Keys(batch) : LastCost(batch, k) # FirstCost(batch, k)}

RECURSIVE SumLast(_, _)
\* the sum over the keys ks of (number of units) x (cost of the last unit)
SumLast(batch, ks) ==
    IF ks = {} THEN Zero
    ELSE LET k == CHOOSE x \in ks : TRUE IN
         RAdd(RTimes(Cardinality(Places(batch, k)), LastCost(batch, k)),
              SumLast(batch, ks \ {k}))

\* C28 as stated: for a key with two costs in one batch, the price entered
\* and the cost used in the batch total are those of the later row.
C28_LaterCostOverwrites ==
    MixedKeys(cur.batch) # {} =>
        /\ \A e \in DOMAIN cur.form :
              (cur.form[e].field = "price"
                 /\ cur.form[e].barserial \in MixedKeys(cur.batch)) =>
                    IsNearestHundredth(cur.form[e].value,
                        LastCost(cur.batch, cur.form[e].barserial))
        /\ cur.paid # -1 =>
              IsNearestHundredth(cur.paid,
                                 SumLast(cur.batch, Keys(cur.batch)))

\* C28, amended: for a key with two costs in one batch, the price entered
\* and the cost used in the batch total are those of the first unit of the
\* key in the batch (two decimals); the later cost is not used.
C28_FirstCostStays ==
    MixedKeys(cur.batch) # {} =>
        /\ \A e \in DOMAIN cur.form :
              (cur.form[e].field = "price"
                 /\ cur.form[e].barserial \in MixedKeys(cur.batch)) =>
                    IsNearestHundredth(cur.form[e].value,
                        FirstCost(cur.batch, cur.form[e].barserial))
        /\ cur.paid # -1 =>
              IsNearestHundredth(cur.paid,
                                 SumOver(cur.batch, Keys(cur.batch)))

\* rows A 3 for 4.50 and A 1 for 5.00 in one batch: 4 units priced 1.50,
\* 6.00 paid
C28_Witness ==
    /\ cur.batch = <<<<"A", Rat(3, 2)>>, <<"A", Rat(3, 2)>>,
                     <<"A", Rat(3, 2)>>, <<"A", Rat(5, 1)>>>>
    /\ \E e \in DOMAIN cur.form :
          /\ cur.form[e].field = "price"
          /\ cur.form[e].value = 150
    /\ cur.paid = 600

(***************************************************************************)
(* Progress of the batch loop.                                             *)
(***************************************************************************)
BatchRunning ==
    dpc \notin {"off", "read", "aborted", "loop", "done", "raised"}

\* the batches are started once each, in ascending order, batch k + 1 at
\* the index where batch k ended and only when the index has got there; the
\* index never passes the number of units, and the loop ends only there
C30_Progress ==
    /\ i <= Len(units)
    /\ \A b \in DOMAIN batches :
          /\ batches[b].first < Len(units)
          /\ batches[b].units # <<>>
          /\ b = 1 => batches[b].first = 0
          /\ b > 1 =>
                /\ batches[b].first > batches[b - 1].first
                /\ batches[b].first =
                      batches[b - 1].first + Len(batches[b - 1].units)
          /\ b < Len(batches) =>
                i >= batches[b].first + Len(batches[b].units)
    /\ (BatchRunning /\ batches # <<>>) =>
          i = batches[Len(batches)].first
    /\ (dpc = "loop" /\ batches # <<>>) =>
          i = batches[Len(batches)].first
                + Len(batches[Len(batches)].units)
    /\ dpc = "done" => i = Len(units)

C30_Ended == dpc \in {"done", "raised", "aborted"}

\* C30: the loop of the batch driver always makes progress, and it ends:
\* when no step raises, with the index at the number of units.
C30_ProgressAndTermination == []C30_Progress /\ <>C30_Ended

\* three batches, the second without cart identifier, and the loop ended
C30_Witness ==
    /\ dpc = "done"
    /\ Len(batches) = 3
    /\ batches[2].cart = "missing"
    /\ batches[3].cart = "ok"
    /\ i = Len(units)

(***************************************************************************)
(* The records of a table file.                                            *)
(***************************************************************************)
\* file f, final or temporary, is the one written for the j-th top-level
\* category
WrittenFor(f, j) ==
    LET filename == FileName(sp.top_categories[j])
    IN f.name = filename \/ f.name = TmpName(filename)

\* the records visit x made itself: the lines of its table, or the blank
\* record of an empty node
MadeBy(x) ==
    CASE visits[x].kind = "leaf" ->
            {<<visits[x].path, visits[x].table[q]>> :
                q \in DOMAIN visits[x].table}
      [] visits[x].kind = "empty" -> {<<visits[x].path, NineBlanks>>}
      [] OTHER -> {}

\* every data row of f starts with the name of the j-th top-level category
\* and is the padded record of a node of its subtree
RowsFromSubtree(f, j) ==
    LET top == ChildAt(0, j)
        depth == Len(f.header) - Len(leaf_headers)
    IN /\ Len(f.rows) <= Len(visits[top].result)
       /\ \A r \in DOMAIN f.rows :
             /\ f.rows[r][1] = sp.top_categories[j]
             /\ \E x \in Visits :
                   /\ visits[x].kind \in {"leaf", "empty"}
                   /\ x = top \/ IsBelow(x, top)
                   /\ \E rec \in MadeBy(x) :
                         f.rows[r] = PaddedRow(rec[1], rec[2], depth)

\* C29: a table file that has data rows, while it is written and afterwards,
\* is the file of the top-level category its first row names; every row of
\* it starts with that name and is the padded record of a node explored in
\* the subtree of that category: what other categories brought, all_rows
\* included, is not in it.
C29_OnlyOwnSubtree ==
    \A f \in files :
        f.rows # <<>> =>
            \E j \in DOMAIN sp.top_categories :
                /\ sp.top_categories[j] = f.rows[1][1]
                /\ HasChildAt(0, j)
                /\ WrittenFor(f, j)
                /\ RowsFromSubtree(f, j)

\* two top-level categories, both with records, both written, and all_rows
\* holding the records of both
C29_Witness ==
    /\ cpc = "done"
    /\ sp.top_categories = <<T1, T2>>
    /\ HasFile(FileName(T1)) /\ FileAt(FileName(T1)).rows # <<>>
    /\ HasFile(FileName(T2)) /\ FileAt(FileName(T2)).rows # <<>>
    /\ \E a, b \in DOMAIN all_rows :
          all_rows[a][1][1] = T1 /\ all_rows[b][1][1] = T2

(***************************************************************************)
(* process_refunds_from_file, process_refunds                              *)
(***************************************************************************)
\* the lines readlines gives: two numbers, the first number written with a
\* leading zero, a text, an empty line
LineChoices ==
    { <<"1", "0", "1", "\n">>,
      <<"1", "0", "2", "\n">>,
      <<"0", "1", "0", "1", "\n">>,
      <<"a", "b", "c", "\n">>,
      <<"\n">> }

LineSeqs == UNION { [1..n -> LineChoices] : n \in 0..MaxLines }

Whitespace == {" ", "\n"}

RECURSIVE LStrip(_)
LStrip(text) ==
    IF text # <<>> /\ Head(text) \in Whitespace THEN LStrip(Tail(text))
    ELSE text

RECURSIVE RStrip(_)
RStrip(text) ==
    IF text # <<>> /\ text[Len(text)] \in Whitespace
    THEN RStrip(SubSeq(text, 1, Len(text) - 1))
    ELSE text

\* line.strip()   (line 969)
Strip(text) == RStrip(LStrip(text))

DigitValue(c) ==
    CASE c = "0" -> 0 [] c = "1" -> 1 [] c = "2" -> 2 [] c = "3" -> 3
      [] c = "4" -> 4 [] c = "5" -> 5 [] c = "6" -> 6 [] c = "7" -> 7
      [] c = "8" -> 8 [] c = "9" -> 9

\* int(line) does not raise ValueError   (lines 976-977)
IsInt(text) ==
    /\ text # <<>>
    /\ \A k \in DOMAIN text : text[k] \in Digits

RECURSIVE ReceiptId(_)
\* int(line)   (line 977)
ReceiptId(text) ==
    IF text = <<>> THEN 0
    ELSE 10 * ReceiptId(SubSeq(text, 1, Len(text) - 1))
            + DigitValue(text[Len(text)])

RECURSIVE ReadIds(_, _)
\* receipt_ids after the first n lines   (lines 966-981)
ReadIds(lines, n) ==
    IF n = 0 THEN <<>>
    ELSE LET line == Strip(lines[n]) IN
         IF line = <<>> \/ ~IsInt(line) THEN ReadIds(lines, n - 1)
         ELSE Append(ReadIds(lines, n - 1), ReceiptId(line))

\* the lines "[WARNING] Line n: ... is not a valid number, skipping" is
\* printed for   (lines 979-981)
WarnedLines(lines) ==
    {n \in DOMAIN lines : Strip(lines[n]) # <<>> /\ ~IsInt(Strip(lines[n]))}

\* open, readlines and the parsing loop; FileNotFoundError and an empty
\* list end the run   (lines 963-989, 1003-1005)
ReadRefundFile ==
    /\ rpc = "read"
    /\ IF ~rfile.found
       THEN /\ rpc' = "aborted"
            /\ UNCHANGED <<receipt_ids, warned>>
       ELSE /\ receipt_ids' = ReadIds(rfile.lines, Len(rfile.lines))
            /\ warned' = WarnedLines(rfile.lines)
            /\ rpc' = IF receipt_ids' = <<>> THEN "aborted" ELSE "receipt"
    /\ UNCHANGED <<fvars, cvars, svars, rfile, receipt, attempts>>

CardCounts == {0, 1, 2}     \* cards of form#w3 on a refund page

NewAttempt(id, cards) ==
    [id |-> id, cards |-> cards, done |-> <<>>, submit |-> "none",
     failed |-> FALSE]

LastAttempt == Len(attempts)

\* for receipt_id in receipt_ids: page.goto(url), query_selector_all; an
\* exception ends this receipt: "[ERROR] Failed to process receipt ID",
\* continue   (lines 841-854, 945-947)
RefundGoto ==
    /\ rpc = "receipt"
    /\ receipt.idx <= Len(receipt_ids)
    /\ \/ /\ attempts' = Append(attempts,
                [NewAttempt(receipt_ids[receipt.idx], 0)
                    EXCEPT !.failed = TRUE])
          /\ receipt' = [NoReceipt EXCEPT !.idx = receipt.idx + 1]
          /\ rpc' = rpc
       \/ \E n \in CardCounts :
             /\ attempts' = Append(attempts,
                                   NewAttempt(receipt_ids[receipt.idx], n))
             /\ receipt' = [idx |-> receipt.idx, cards |-> n, card |-> 1,
                            bank_transfer_unavailable |-> FALSE]
             /\ rpc' = "cards"
    /\ UNCHANGED <<fvars, cvars, svars, rfile, receipt_ids, warned>>

\* the fields of the card are filled: "Successfully processed card"
\* (lines 859-918)
CardFilled ==
    /\ rpc = "cards"
    /\ receipt.card <= receipt.cards
    /\ attempts' = [attempts EXCEPT ![LastAttempt].done = Append(@, "ok")]
    /\ receipt' = [receipt EXCEPT !.card = @ + 1]
    /\ UNCHANGED <<fvars, cvars, svars, rfile, receipt_ids, rpc, warned>>

\* except Exception as card_error: "[ERROR] Failed to process card",
\* continue   (lines 920-922)
CardFails ==
    /\ rpc = "cards"
    /\ receipt.card <= receipt.cards
    /\ attempts' = [attempts EXCEPT ![LastAttempt].done = Append(@, "error")]
    /\ receipt' = [receipt EXCEPT !.card = @ + 1]
    /\ UNCHANGED <<fvars, cvars, svars, rfile, receipt_ids, rpc, warned>>

\* select_option(value="bank-transfer") raises: bank_transfer_unavailable =
\* True, break   (lines 878-886)
CardNoBankTransfer ==
    /\ rpc = "cards"
    /\ receipt.card <= receipt.cards
    /\ attempts' = [attempts EXCEPT
                      ![LastAttempt].done = Append(@, "unavailable")]
    /\ receipt' = [receipt EXCEPT !.bank_transfer_unavailable = TRUE]
    /\ rpc' = "after_cards"
    /\ UNCHANGED <<fvars, cvars, svars, rfile, receipt_ids, warned>>

\* the loop over the cards is over   (line 856)
CardsEnd ==
    /\ rpc = "cards"
    /\ receipt.card > receipt.cards
    /\ rpc' = "after_cards"
    /\ UNCHANGED <<fvars, cvars, svars, rfile, receipt_ids, receipt, warned,
                   attempts>>

\* the flag is not looked at: the form is submitted all the same
MutSkipSubmit(bank_transfer_unavailable) == FALSE

\* if bank_transfer_unavailable: continue   (lines 924-926)
SkipSubmit(bank_transfer_unavailable) == bank_transfer_unavailable

\* "Skipping to next receipt due to Bank Transfer unavailability"
\* (lines 924-926)
SkipReceipt ==
    /\ rpc = "after_cards"
    /\ SkipSubmit(receipt.bank_transfer_unavailable)
    /\ receipt' = [NoReceipt EXCEPT !.idx = receipt.idx + 1]
    /\ rpc' = "receipt"
    /\ UNCHANGED <<fvars, cvars, svars, rfile, receipt_ids, warned, attempts>>

\* sleep(4); the Process button is clicked, or is not found, or the click
\* raises and the error is logged   (lines 928-943)
ProcessClick ==
    /\ rpc = "after_cards"
    /\ ~SkipSubmit(receipt.bank_transfer_unavailable)
    /\ \E out \in {"clicked", "not_found", "click_failed"} :
          attempts' = [attempts EXCEPT ![LastAttempt].submit = out]
    /\ receipt' = [NoReceipt EXCEPT !.idx = receipt.idx + 1]
    /\ rpc' = "receipt"
    /\ UNCHANGED <<fvars, cvars, svars, rfile, receipt_ids, warned>>

\* "Finished processing all ... receipt(s)"; input()   (lines 949, 994-1001)
RefundsEnd ==
    /\ rpc = "receipt"
    /\ receipt.idx > Len(receipt_ids)
    /\ rpc' = "done"
    /\ UNCHANGED <<fvars, cvars, svars, rfile, receipt_ids, receipt, warned,
                   attempts>>

InitRefunds ==
    /\ fetch = NoFetch
    /\ pageClosed = FALSE
    /\ CrawlIdle
    /\ SalesIdle
    /\ rfile \in {[found |-> FALSE, lines |-> <<>>]}
          \cup [found : {TRUE}, lines : LineSeqs]
    /\ receipt_ids = <<>>
    /\ rpc = "read"
    /\ receipt = NoReceipt
    /\ warned = {}
    /\ attempts = <<>>

NextRefunds ==
    \/ ReadRefundFile
    \/ RefundGoto
    \/ CardFilled
    \/ CardFails
    \/ CardNoBankTransfer
    \/ CardsEnd
    \/ SkipReceipt
    \/ ProcessClick
    \/ RefundsEnd

SpecRefunds == InitRefunds /\ [][NextRefunds]_vars

(***************************************************************************)
(* The refund list and the refund driver.                                  *)
(***************************************************************************)
\* C23: the list handed to the refund driver holds each identifier at most
\* once.
C23_NoDuplicateIds ==
    \A a, b \in DOMAIN receipt_ids :
        receipt_ids[a] = receipt_ids[b] => a = b

\* the attempt is over: the loop has gone to the next receipt, or has ended
Over(a) == a < Len(attempts) \/ rpc \in {"receipt", "done"}

Unavailable(a) ==
    \E c \in DOMAIN attempts[a].done : attempts[a].done[c] = "unavailable"

\* C24: when the refund method cannot be selected on a card of a receipt,
\* that card is the last one gone to, the form of the receipt is not
\* submitted, and the loop goes on with the next identifier of the list.
C24_UnavailableSkipsReceipt ==
    \A a \in DOMAIN attempts :
        Unavailable(a) =>
            /\ \A c \in DOMAIN attempts[a].done :
                  attempts[a].done[c] = "unavailable" =>
                      c = Len(attempts[a].done)
            /\ attempts[a].submit = "none"
            /\ attempts[a].id = receipt_ids[a]
            /\ a < Len(attempts) => attempts[a + 1].id = receipt_ids[a + 1]
            /\ (a = Len(attempts) /\ rpc = "receipt") => receipt.idx = a + 1
            /\ rpc = "done" => Len(attempts) = Len(receipt_ids)

\* the method is refused on the first of two cards of the first receipt;
\* the second receipt is submitted
C24_Witness ==
    /\ rpc = "done"
    /\ Len(attempts) = 2
    /\ attempts[1].cards = 2
    /\ attempts[1].done = <<"unavailable">>
    /\ attempts[1].submit = "none"
    /\ attempts[2].id = receipt_ids[2]
    /\ attempts[2].submit = "clicked"

\* a failure on a card or on a receipt stops nothing: every card of a
\* receipt whose method is not refused is gone to, and the receipts gone to
\* are the entries of the list, one attempt per entry, in order
EveryEntryOnceInOrder ==
    /\ rpc \notin {"off", "read", "aborted"} =>
          /\ Len(attempts) <= Len(receipt_ids)
          /\ \A a \in DOMAIN attempts : attempts[a].id = receipt_ids[a]
    /\ \A a \in DOMAIN attempts :
          (Over(a) /\ ~Unavailable(a) /\ ~attempts[a].failed) =>
              Len(attempts[a].done) = attempts[a].cards
    /\ rpc = "done" => Len(attempts) = Len(receipt_ids)

\* C25: a failure on a card does not stop the run: the other cards of the
\* receipt are gone to, and every identifier of the list is attempted
\* exactly once, in the order of the list.
C25_EveryIdOnceInOrder ==
    /\ EveryEntryOnceInOrder
    /\ rpc = "done" =>
          \A k \in DOMAIN receipt_ids :
              Cardinality({a \in DOMAIN attempts :
                              attempts[a].id = receipt_ids[k]}) = 1

(***************************************************************************)
(* The payment and the quantities of a batch against its units.            *)
(***************************************************************************)
\* the units of one key all have the same cost
AllSameCost(batch) ==
    \A j, l \in DOMAIN batch :
        batch[j][1] = batch[l][1] => batch[j][2] = batch[l][2]

RECURSIVE SumUnits(_)
\* the sum of the cost of every unit
SumUnits(batch) ==
    IF batch = <<>> THEN Zero
    ELSE RAdd(batch[1][2], SumUnits(Tail(batch)))

RECURSIVE SumQuantities(_)
\* the sum of the quantities entered on the pricing page
SumQuantities(form) ==
    IF form = <<>> THEN 0
    ELSE (IF form[1].field = "quantity" THEN form[1].value ELSE 0)
            + SumQuantities(Tail(form))

\* C31 as stated: for a paid batch in which the units of a key all have the
\* same cost, the amount filled into the payment field equals the sum of
\* the costs of the units of the batch, and the quantities entered sum to
\* the number of units.
C31_PaymentEqualsSumOfUnits ==
    (cur.paid # -1 /\ AllSameCost(cur.batch)) =>
        /\ REq(Rat(cur.paid, 100), SumUnits(cur.batch))
        /\ SumQuantities(cur.form) = Len(cur.batch)

\* C31, amended: for a paid batch in which the units of a key all have the
\* same cost, the amount filled into the payment field is the sum of the
\* costs of the units of the batch rounded to two decimals; the quantities
\* entered on the pricing page of a paid batch sum to its number of units.
C31_PaymentIsRoundedSumOfUnits ==
    cur.paid # -1 =>
        /\ AllSameCost(cur.batch) =>
              IsNearestHundredth(cur.paid, SumUnits(cur.batch))
        /\ SumQuantities(cur.form) = Len(cur.batch)

\* rows B 21 for 10.00 and B 2 for 8.00: the first batch, 20 units of one
\* cost, is paid with 9.52, the rounded sum of its units; the second, one
\* unit at 10/21 and two at 4.00, is paid with 1.43, which is not the sum of
\* its units, and 3 units are entered for it
C31_Witness ==
    /\ Len(batches) = 2
    /\ Len(batches[1].units) = 20
    /\ AllSameCost(batches[1].units)
    /\ batches[1].paid = 952
    /\ IsNearestHundredth(batches[1].paid, SumUnits(batches[1].units))
    /\ ~REq(Rat(batches[1].paid, 100), SumUnits(batches[1].units))
    /\ cur.batch = batches[2].units
    /\ cur.batch = <<<<"B", Rat(10, 21)>>, <<"B", Rat(4, 1)>>,
                     <<"B", Rat(4, 1)>>>>
    /\ ~AllSameCost(cur.batch)
    /\ cur.paid = 143
    /\ ~IsNearestHundredth(cur.paid, SumUnits(cur.batch))
    /\ SumQuantities(cur.form) = 3

====
